---- MODULE Spec2Model ----
(***************************************************************************)
(* A model of the crawler core of nor_crawler:                             *)
(*   - crawler/utils.py      normalize_url, get_domain, same_domain        *)
(*   - crawler/scheduler.py  Scheduler (frontier queue, seen-set, run)     *)
(*   - crawler/fetcher.py    ProxyPool, Fetcher.fetch                      *)
(*   - crawler/anti_bot.py   RobotsCache, BackoffStrategy,                 *)
(*                           DomainRateLimiter                             *)
(*                                                                         *)
(* Strings that the code inspects character by character (a netloc, an     *)
(* allowed domain) are sequences of one-character strings.  A URL is the   *)
(* record of the components urllib.parse.urlparse splits it into, as they  *)
(* are written in the URL string.                                          *)
(***************************************************************************)
EXTENDS Integers, Sequences, FiniteSets, TLC

(***************************************************************************)
(* Bounds of the model.                                                    *)
(***************************************************************************)
\* the largest concurrency handed to Scheduler.run
MaxConc == 2
\* the longest seed list handed to Scheduler.__init__
MaxSeeds == 2
\* the largest max_retries a Fetcher is configured with
MaxRetries == 2
\* the number of callers that run Fetcher.fetch concurrently
NumFetchers == 2
\* the readings of the event-loop clock the jitter is drawn from, in 0.1 ms
MaxClock == 3
\* the longest proxy list of a ProxyPool on its own
MaxProxies == 3
\* the failures recorded against one proxy of a ProxyPool on its own
MaxFailures == 4
\* the enqueue calls on a Scheduler looked at for its scope filter alone
MaxScopeCalls == 2
\* BackoffStrategy on its own: initial_ms in 0..MaxInitialMs, max_ms in
\* 0..MaxMaxMs, attempts 1..MaxAttempt, clock readings 0..MaxJitterClock (0.1 ms)
MaxInitialMs == 3
MaxMaxMs == 6
MaxAttempt == 3
MaxJitterClock == 12

VARIABLES
    \* ---- Scheduler (crawler/scheduler.py) ----
    allowed_domains,  \* Scheduler.allowed_domains: a list of domains
    seeds,            \* the seed list Scheduler.__init__ was given
    queue,            \* Scheduler.queue: the items of the asyncio.Queue, FIFO
    unfinished,       \* asyncio.Queue._unfinished_tasks of Scheduler.queue
    seen,             \* Scheduler.seen
    lastEnq,          \* the latest enqueue call: [res: none/scope/seen/pushed, url]
    pushes,           \* how many times queue.put_nowait was called
    concurrency,      \* the concurrency argument of run
    tasks,            \* the worker tasks run created: idx -> [pc, url, cancel]
    runpc,            \* where the run coroutine is: idle/join/woken/returned
    handled,          \* per URL: how many times worker(url) was invoked
    outcome,          \* per URL: how its handler ended: none/returned/raised
    \* ---- Fetcher (crawler/fetcher.py, crawler/anti_bot.py) ----
    cfg,              \* the arguments of Fetcher.__init__
    robots_cache,     \* RobotsCache._cache: netloc -> parser state
    since,            \* per netloc: ms since DomainRateLimiter.last_request_ts,
                      \* saturated at delay_ms (the clock, kept relative)
    lock,             \* DomainRateLimiter._lock: [holder, waiters]
    pool,             \* ProxyPool: [idx, fail_counts]
    fp,               \* per fetch caller: the frame of its fetch(url) call
    \* ---- the classes on their own: the latest calls and their results ----
    pcall,            \* the latest ProxyPool call: [op, proxy, examined, before]
    streak,           \* per proxy: mark_failure calls since its last mark_success
    rcall,            \* the latest RobotsCache.allowed call: [url, ok, raised, read]
    reads,            \* per netloc: how often rp.read() ran and what it met first
    dcall,            \* the latest compute_delay_ms call: [attempt, t, raised, tenths]
    dprev             \* the compute_delay_ms call before the latest

schedVars == <<allowed_domains, seeds, queue, unfinished, seen, lastEnq, pushes,
               concurrency, tasks, runpc, handled, outcome>>

fetchVars == <<cfg, robots_cache, since, lock, pool, fp>>

unitVars == <<pcall, streak, rcall, reads, dcall, dprev>>

vars == <<schedVars, fetchVars, unitVars>>

(***************************************************************************)
(* Strings and URLs.                                                       *)
(***************************************************************************)
\* str.lower() on one character
LowerChar(c) ==
    CASE c = "A" -> "a"
      [] c = "B" -> "b"
      [] c = "E" -> "e"
      [] c = "N" -> "n"
      [] OTHER -> c

\* str.lower() on a string held as a sequence of characters
Lower(s) == [i \in 1..Len(s) |-> LowerChar(s[i])]

\* str.endswith
EndsWith(s, t) ==
    /\ Len(t) <= Len(s)
    /\ SubSeq(s, Len(s) - Len(t) + 1, Len(s)) = t

\* urlsplit lower-cases the scheme it finds
LowerScheme(s) ==
    CASE s = "HTTP" -> "http"
      [] s = "HTTPS" -> "https"
      [] OTHER -> s

\* The URLs the model draws seeds and discovered links from.
\*   http://a.e/x   http://a.e/x#f   HTTP://A.e/x#g   http://b.e/x
RawURLs ==
    { [scheme |-> "http", netloc |-> <<"a", ".", "e">>, path |-> "/x", fragment |-> ""],
      [scheme |-> "http", netloc |-> <<"a", ".", "e">>, path |-> "/x", fragment |-> "f"],
      [scheme |-> "HTTP", netloc |-> <<"A", ".", "e">>, path |-> "/x", fragment |-> "g"],
      [scheme |-> "http", netloc |-> <<"b", ".", "e">>, path |-> "/x", fragment |-> ""] }

\* The allowed-domain lists of the configurations the model covers:
\* no restriction, ["A.E"], ["c.e", "a.e"].
AllowedLists ==
    { <<>>,
      << <<"A", ".", "E">> >>,
      << <<"c", ".", "e">>, <<"a", ".", "e">> >> }

\* urllib.parse.urlparse: the components of a URL string, scheme lower-cased
urlparse(url) == [url EXCEPT !.scheme = LowerScheme(@)]

\* urllib.parse.urlunparse: the string of the components, held as the record
\* of its own parse.  With no netloc and a path that starts with "//" the
\* string is scheme + ":" + path (Python 3.11), which parses as a URL whose
\* netloc is the first segment of that path.
urlunparse(parsed) ==
    IF parsed.netloc = <<>> /\ parsed.path = "//a.e/x"
    THEN [parsed EXCEPT !.netloc = <<"a", ".", "e">>, !.path = "/x"]
    ELSE parsed

\* get_domain(url)
get_domain(url) == urlparse(url).netloc

\* same_domain that matches whole labels only: the host itself or a subdomain
same_domain_LabelBoundary(url, domains) ==
    LET netloc == Lower(get_domain(url))
    IN  \E i \in 1..Len(domains) :
            \/ netloc = Lower(domains[i])
            \/ EndsWith(netloc, <<".">> \o Lower(domains[i]))

\* same_domain(url, domains)
same_domain(url, domains) ==
    LET netloc == Lower(get_domain(url))
    IN  \E i \in 1..Len(domains) : EndsWith(netloc, Lower(domains[i]))

\* normalize_url that keeps the fragment
normalize_url_KeepFragment(url) == urlunparse(urlparse(url))

\* normalize_url(url)
normalize_url(url) ==
    LET parsed == [urlparse(url) EXCEPT !.fragment = ""]
    IN  urlunparse(parsed)

NormURLs == { normalize_url(u) : u \in RawURLs }

(***************************************************************************)
(* Scheduler (crawler/scheduler.py).                                       *)
(***************************************************************************)
NoURL == [scheme |-> "", netloc |-> <<>>, path |-> "", fragment |-> ""]

\* the state a Scheduler is constructed with, before the seeds are enqueued
EmptyFrontier ==
    [queue |-> <<>>, seen |-> {}, unfinished |-> 0,
     lastEnq |-> [res |-> "none", url |-> NoURL], pushes |-> 0]

\* the frontier fields of the current state, as one record
Frontier == [queue |-> queue, seen |-> seen, unfinished |-> unfinished,
             lastEnq |-> lastEnq, pushes |-> pushes]

\* put_nowait that does not count the item as unfinished
put_nowait_Uncounted(st, url) ==
    [st EXCEPT !.queue = Append(@, url), !.pushes = @ + 1]

\* asyncio.Queue.put_nowait: append the item, count it as unfinished
put_nowait(st, url) ==
    [st EXCEPT !.queue = Append(@, url), !.unfinished = @ + 1,
               !.pushes = @ + 1]

\* enqueue without the "if url in self.seen: return" test
enqueue_NoSeenTest(st, domains, raw) ==
    LET url == normalize_url(raw)
    IN  IF domains # <<>> /\ ~same_domain(url, domains)
        THEN [st EXCEPT !.lastEnq = [res |-> "scope", url |-> url]]
        ELSE [put_nowait([st EXCEPT !.seen = @ \cup {url}], url)
                 EXCEPT !.lastEnq = [res |-> "pushed", url |-> url]]

\* enqueue with the dedup (test and seen.add) ahead of the scope filter
enqueue_ScopeAfterSeen(st, domains, raw) ==
    LET url == normalize_url(raw)
    IN  IF url \in st.seen
        THEN [st EXCEPT !.lastEnq = [res |-> "seen", url |-> url]]
        ELSE IF domains # <<>> /\ ~same_domain(url, domains)
        THEN [st EXCEPT !.seen = @ \cup {url},
                        !.lastEnq = [res |-> "scope", url |-> url]]
        ELSE [put_nowait([st EXCEPT !.seen = @ \cup {url}], url)
                 EXCEPT !.lastEnq = [res |-> "pushed", url |-> url]]

\* enqueue that pushes without recording the URL in self.seen
enqueue_NoSeenAdd(st, domains, raw) ==
    LET url == normalize_url(raw)
    IN  IF domains # <<>> /\ ~same_domain(url, domains)
        THEN [st EXCEPT !.lastEnq = [res |-> "scope", url |-> url]]
        ELSE IF url \in st.seen
        THEN [st EXCEPT !.lastEnq = [res |-> "seen", url |-> url]]
        ELSE [put_nowait(st, url) EXCEPT !.lastEnq = [res |-> "pushed", url |-> url]]

\* Scheduler.enqueue(url) on the frontier st, under the allow-list domains
enqueue(st, domains, raw) ==
    LET url == normalize_url(raw)
    IN  IF domains # <<>> /\ ~same_domain(url, domains)
        THEN [st EXCEPT !.lastEnq = [res |-> "scope", url |-> url]]
        ELSE IF url \in st.seen
        THEN [st EXCEPT !.lastEnq = [res |-> "seen", url |-> url]]
        ELSE [put_nowait([st EXCEPT !.seen = @ \cup {url}], url)
                 EXCEPT !.lastEnq = [res |-> "pushed", url |-> url]]

\* Scheduler.__init__: for url in seeds: self.enqueue(url)
RECURSIVE EnqueueAll(_, _, _)
EnqueueAll(st, domains, list) ==
    IF list = <<>> THEN st
    ELSE EnqueueAll(enqueue(st, domains, Head(list)), domains, Tail(list))

SeedLists == UNION { [1..n -> RawURLs] : n \in 0..MaxSeeds }

\* never fewer than one task: range(max(1, concurrency))
create_tasks_AtLeastOne(c) ==
    [i \in 0..((IF c > 1 THEN c ELSE 1) - 1) |->
        [pc |-> "ready", url |-> NoURL, cancel |-> FALSE]]

\* one task too many: range(concurrency + 1)
create_tasks_OneMore(c) ==
    [i \in 0..c |-> [pc |-> "ready", url |-> NoURL, cancel |-> FALSE]]

\* asyncio.create_task for each i in range(concurrency)
create_tasks(c) ==
    [i \in 0..(c - 1) |-> [pc |-> "ready", url |-> NoURL, cancel |-> FALSE]]

\* the cancel loop skips the first task: for t in tasks[1:]
cancel_tasks_SkipFirst(ts) ==
    [i \in DOMAIN ts |-> [ts[i] EXCEPT !.cancel = (i # 0)]]

\* for t in tasks: t.cancel()
cancel_tasks(ts) == [i \in DOMAIN ts |-> [ts[i] EXCEPT !.cancel = TRUE]]

\* the finally clause forgets queue.task_done()
task_done_Forgotten(n) == n

\* asyncio.Queue.task_done: one unfinished item less
task_done(n) == n - 1

SchedInit ==
    /\ allowed_domains \in AllowedLists
    /\ seeds \in SeedLists
    /\ concurrency \in 0..MaxConc
    /\ LET st == EnqueueAll(EmptyFrontier, allowed_domains, seeds)
       IN  /\ queue = st.queue
           /\ seen = st.seen
           /\ unfinished = st.unfinished
           /\ lastEnq = st.lastEnq
           /\ pushes = st.pushes
    /\ tasks = <<>>
    /\ runpc = "idle"
    /\ handled = [u \in NormURLs |-> 0]
    /\ outcome = [u \in NormURLs |-> "none"]

\* run(worker, concurrency), up to its first suspension: the tasks are created;
\* queue.join() does not suspend when nothing is unfinished, and then the tasks
\* are cancelled before any of them ran.
RunStart ==
    /\ runpc = "idle"
    /\ IF unfinished > 0
       THEN /\ tasks' = create_tasks(concurrency)
            /\ runpc' = "join"
       ELSE /\ tasks' = cancel_tasks(create_tasks(concurrency))
            /\ runpc' = "returned"
    /\ UNCHANGED <<allowed_domains, seeds, queue, unfinished, seen, lastEnq, pushes,
                   concurrency, handled, outcome>>
    /\ UNCHANGED <<fetchVars, unitVars>>

\* the item is marked done when it is dequeued, before worker(url) ran
WorkerGet_DoneAtGet(w) ==
    /\ w \in DOMAIN tasks
    /\ tasks[w].pc = "ready"
    /\ ~tasks[w].cancel
    /\ queue # <<>>
    /\ queue' = Tail(queue)
    /\ tasks' = [tasks EXCEPT ![w] = [@ EXCEPT !.pc = "handling", !.url = Head(queue)]]
    /\ handled' = [handled EXCEPT ![Head(queue)] = @ + 1]
    /\ unfinished' = unfinished - 1
    /\ runpc' = IF runpc = "join" /\ unfinished - 1 = 0 THEN "woken" ELSE runpc
    /\ UNCHANGED <<allowed_domains, seeds, seen, lastEnq, pushes, concurrency, outcome>>
    /\ UNCHANGED <<fetchVars, unitVars>>

\* _worker_task: url = await self.queue.get(), then worker(url) starts
WorkerGet(w) ==
    /\ w \in DOMAIN tasks
    /\ tasks[w].pc = "ready"
    /\ ~tasks[w].cancel
    /\ queue # <<>>
    /\ queue' = Tail(queue)
    /\ tasks' = [tasks EXCEPT ![w] = [@ EXCEPT !.pc = "handling", !.url = Head(queue)]]
    /\ handled' = [handled EXCEPT ![Head(queue)] = @ + 1]
    /\ UNCHANGED <<allowed_domains, seeds, unfinished, seen, lastEnq, pushes,
                   concurrency, runpc, outcome>>
    /\ UNCHANGED <<fetchVars, unitVars>>

\* the handler, while it runs, calls scheduler.enqueue(link)
HandlerEnqueue(w, raw) ==
    /\ w \in DOMAIN tasks
    /\ tasks[w].pc = "handling"
    /\ LET st == enqueue(Frontier, allowed_domains, raw)
       IN  /\ queue' = st.queue
           /\ seen' = st.seen
           /\ unfinished' = st.unfinished
           /\ lastEnq' = st.lastEnq
           /\ pushes' = st.pushes
    /\ UNCHANGED <<allowed_domains, seeds, concurrency, tasks, runpc, handled,
                   outcome>>
    /\ UNCHANGED <<fetchVars, unitVars>>

\* the end of one handler invocation of task w: the finally clause calls
\* queue.task_done(), which sets the event join() waits on when the count
\* reaches 0; the worker loops back to queue.get()
FinishItem(w, how) ==
    /\ outcome' = [outcome EXCEPT ![tasks[w].url] = how]
    /\ unfinished' = task_done(unfinished)
    /\ runpc' = IF runpc = "join" /\ task_done(unfinished) = 0 THEN "woken" ELSE runpc
    /\ tasks' = [tasks EXCEPT ![w] = [@ EXCEPT !.pc = "ready", !.url = NoURL]]
    /\ UNCHANGED <<allowed_domains, seeds, queue, seen, lastEnq, pushes, concurrency,
                   handled>>
    /\ UNCHANGED <<fetchVars, unitVars>>

\* worker(url) returns
HandlerReturn(w) ==
    /\ w \in DOMAIN tasks
    /\ tasks[w].pc = "handling"
    /\ FinishItem(w, "returned")

\* worker(url) raises with no try around it: the error ends the worker task
HandlerRaise_Uncaught(w) ==
    /\ w \in DOMAIN tasks
    /\ tasks[w].pc = "handling"
    /\ outcome' = [outcome EXCEPT ![tasks[w].url] = "raised"]
    /\ tasks' = [tasks EXCEPT ![w] = [@ EXCEPT !.pc = "failed", !.url = NoURL]]
    /\ UNCHANGED <<allowed_domains, seeds, queue, unfinished, seen, lastEnq, pushes,
                   concurrency, runpc, handled>>
    /\ UNCHANGED <<fetchVars, unitVars>>

\* worker(url) raises: except Exception logs it, finally marks the item done
HandlerRaise(w) ==
    /\ w \in DOMAIN tasks
    /\ tasks[w].pc = "handling"
    /\ FinishItem(w, "raised")

\* run, resumed after queue.join(): cancels every task and returns
RunCancel ==
    /\ runpc = "woken"
    /\ tasks' = cancel_tasks(tasks)
    /\ runpc' = "returned"
    /\ UNCHANGED <<allowed_domains, seeds, queue, unfinished, seen, lastEnq, pushes,
                   concurrency, handled, outcome>>
    /\ UNCHANGED <<fetchVars, unitVars>>

\* a cancelled task, waiting in queue.get() or never started, ends with
\* CancelledError
WorkerCancelled(w) ==
    /\ w \in DOMAIN tasks
    /\ tasks[w].pc = "ready"
    /\ tasks[w].cancel
    /\ tasks' = [tasks EXCEPT ![w] = [@ EXCEPT !.pc = "cancelled"]]
    /\ UNCHANGED <<allowed_domains, seeds, queue, unfinished, seen, lastEnq, pushes,
                   concurrency, runpc, handled, outcome>>
    /\ UNCHANGED <<fetchVars, unitVars>>

(***************************************************************************)
(* ProxyPool (crawler/fetcher.py).                                         *)
(***************************************************************************)
\* ProxyPool.__init__: fail_threshold: int = 3
fail_threshold == 3

\* Optional[str] None
None == "None"

\* ProxyPool.__init__(proxies)
pool_init(proxies) ==
    [idx |-> 0, fail_counts |-> [p \in { proxies[i] : i \in DOMAIN proxies } |-> 0]]

\* the loop of next that does not advance self._idx past a proxy it returns
RECURSIVE next_scan_NoAdvance(_, _, _, _)
next_scan_NoAdvance(proxies, fail_counts, idx, start) ==
    LET proxy == proxies[idx + 1]
        idx2 == (idx + 1) % Len(proxies)
    IN  IF fail_counts[proxy] < fail_threshold
        THEN [idx |-> idx, proxy |-> proxy, examined |-> 1]
        ELSE IF idx2 = start
        THEN [idx |-> idx2, proxy |-> None, examined |-> 1]
        ELSE [next_scan_NoAdvance(proxies, fail_counts, idx2, start)
                 EXCEPT !.examined = @ + 1]

\* the loop of next that still returns a proxy whose counter is at the
\* threshold: <= instead of <
RECURSIVE next_scan_Lenient(_, _, _, _)
next_scan_Lenient(proxies, fail_counts, idx, start) ==
    LET proxy == proxies[idx + 1]
        idx2 == (idx + 1) % Len(proxies)
    IN  IF fail_counts[proxy] <= fail_threshold
        THEN [idx |-> idx2, proxy |-> proxy, examined |-> 1]
        ELSE IF idx2 = start
        THEN [idx |-> idx2, proxy |-> None, examined |-> 1]
        ELSE [next_scan_Lenient(proxies, fail_counts, idx2, start)
                 EXCEPT !.examined = @ + 1]

\* the loop of next that tests for the full cycle before it advances
\* self._idx and so gives up after the first proxy
RECURSIVE next_scan_TestBeforeAdvance(_, _, _, _)
next_scan_TestBeforeAdvance(proxies, fail_counts, idx, start) ==
    LET proxy == proxies[idx + 1]
        idx2 == (idx + 1) % Len(proxies)
    IN  IF fail_counts[proxy] < fail_threshold
        THEN [idx |-> idx2, proxy |-> proxy, examined |-> 1]
        ELSE IF idx = start
        THEN [idx |-> idx2, proxy |-> None, examined |-> 1]
        ELSE [next_scan_TestBeforeAdvance(proxies, fail_counts, idx2, start)
                 EXCEPT !.examined = @ + 1]

\* the loop of next that rewinds self._idx to 0 when it gives up
RECURSIVE next_scan_RewindOnNone(_, _, _, _)
next_scan_RewindOnNone(proxies, fail_counts, idx, start) ==
    LET proxy == proxies[idx + 1]
        idx2 == (idx + 1) % Len(proxies)
    IN  IF fail_counts[proxy] < fail_threshold
        THEN [idx |-> idx2, proxy |-> proxy, examined |-> 1]
        ELSE IF idx2 = start
        THEN [idx |-> 0, proxy |-> None, examined |-> 1]
        ELSE [next_scan_RewindOnNone(proxies, fail_counts, idx2, start)
                 EXCEPT !.examined = @ + 1]

\* the while True loop of ProxyPool.next, from index idx (0-based); examined
\* counts the proxies the loop looked at
RECURSIVE next_scan(_, _, _, _)
next_scan(proxies, fail_counts, idx, start) ==
    LET proxy == proxies[idx + 1]
        idx2 == (idx + 1) % Len(proxies)
    IN  IF fail_counts[proxy] < fail_threshold
        THEN [idx |-> idx2, proxy |-> proxy, examined |-> 1]
        ELSE IF idx2 = start
        THEN [idx |-> idx2, proxy |-> None, examined |-> 1]
        ELSE [next_scan(proxies, fail_counts, idx2, start)
                 EXCEPT !.examined = @ + 1]

\* next() that hands out the proxy at the index for a trial request when
\* every proxy is tripped (a half-open circuit breaker)
pool_next_HalfOpen(proxies, pl) ==
    IF proxies = <<>>
    THEN [pool |-> pl, proxy |-> None, examined |-> 0]
    ELSE LET r == next_scan(proxies, pl.fail_counts, pl.idx, pl.idx)
         IN  [pool |-> [pl EXCEPT !.idx = r.idx],
              proxy |-> IF r.proxy = None THEN proxies[pl.idx + 1] ELSE r.proxy,
              examined |-> r.examined]

\* ProxyPool.next(): the pool after the call and the proxy returned
pool_next(proxies, pl) ==
    IF proxies = <<>>
    THEN [pool |-> pl, proxy |-> None, examined |-> 0]
    ELSE LET r == next_scan(proxies, pl.fail_counts, pl.idx, pl.idx)
         IN  [pool |-> [pl EXCEPT !.idx = r.idx], proxy |-> r.proxy,
              examined |-> r.examined]

\* ProxyPool.mark_failure(proxy)
mark_failure(pl, proxy) ==
    IF proxy = None THEN pl
    ELSE [pl EXCEPT !.fail_counts[proxy] = @ + 1]

\* mark_success that takes one failure off instead of resetting the counter
mark_success_Decrement(pl, proxy) ==
    IF proxy = None THEN pl
    ELSE [pl EXCEPT !.fail_counts[proxy] = IF @ > 0 THEN @ - 1 ELSE 0]

\* ProxyPool.mark_success(proxy)
mark_success(pl, proxy) ==
    IF proxy = None THEN pl
    ELSE [pl EXCEPT !.fail_counts[proxy] = 0]

(***************************************************************************)
(* BackoffStrategy (crawler/anti_bot.py).  Delays are in tenths of a       *)
(* millisecond, so that the 20% jitter of an integer base is an integer.   *)
(***************************************************************************)
Min(a, b) == IF a <= b THEN a ELSE b
Max(a, b) == IF a >= b THEN a ELSE b

\* BackoffStrategy.compute_delay_ms(attempt) when the event-loop clock reads
\* t (in 0.1 ms): base + (t % jitter) - jitter / 2, with jitter = base * 0.2.
\* The float modulo raises ZeroDivisionError when jitter is 0.
compute_delay_ms(initial_ms, max_ms, attempt, t) ==
    LET base == Min(initial_ms * (2 ^ Max(0, attempt - 1)), max_ms)
        jitter10 == base * 2
    IN  IF jitter10 = 0
        THEN [raised |-> TRUE, tenths |-> 0]
        ELSE [raised |-> FALSE, tenths |-> (base * 10) + (t % jitter10) - base]

ClockValues == 0..MaxClock

\* await asyncio.sleep(delay_ms / 1000.0): the whole milliseconds after which
\* the sleep is over (a sleep ends no earlier than its delay)
sleep_ms(tenths) == (tenths + 9) \div 10

(***************************************************************************)
(* RobotsCache (crawler/anti_bot.py).                                      *)
(***************************************************************************)
\* what rp.read() meets: a robots.txt that parses, HTTP 401/403, another
\* HTTP 4xx, HTTP 5xx, or an error that read() raises (URLError, ...)
ReadOutcomes == {"ok", "http_401_403", "http_4xx", "http_5xx", "error"}

\* the robots.txt files of the model, each the set of paths it disallows
RobotsFiles == { {}, {"/x"} }

Absent == [state |-> "absent", disallow |-> {}]

\* a RobotFileParser() that has read nothing: last_checked = 0
FreshParser == [state |-> "unread", disallow |-> {}]

\* robots.txt always fetched over https, whatever the scheme of the URL
robots_url_Https(url) ==
    [scheme |-> "https", netloc |-> urlparse(url).netloc,
     path |-> "/robots.txt", fragment |-> ""]

\* RobotsCache._robots_url(url): f"{parsed.scheme}://{parsed.netloc}/robots.txt"
robots_url(url) ==
    [scheme |-> urlparse(url).scheme, netloc |-> urlparse(url).netloc,
     path |-> "/robots.txt", fragment |-> ""]

\* the parser after rp.read(), or "raised" when read() raises
robots_read(out, file) ==
    CASE out = "ok" -> [state |-> "parsed", disallow |-> file]
      [] out = "http_401_403" -> [state |-> "disallow_all", disallow |-> {}]
      [] out = "http_4xx" -> [state |-> "allow_all", disallow |-> {}]
      [] out = "http_5xx" -> FreshParser
      [] OTHER -> [state |-> "raised", disallow |-> {}]

\* RobotFileParser.can_fetch(user_agent, url) for user agent "*"
can_fetch(rp, url) ==
    CASE rp.state = "disallow_all" -> FALSE
      [] rp.state = "allow_all" -> TRUE
      [] rp.state = "unread" -> FALSE
      [] OTHER -> url.path \notin rp.disallow

\* urllib.parse.unquote(url) is a string urlparse rejects (ValueError:
\* Invalid IPv6 URL), as for http://%5Bx/x
BadQuoted(url) == url.netloc # <<>> /\ url.netloc[1] = "%"

\* rp.can_fetch raises: it parses the unquoted URL once the parser has read a
\* robots.txt
can_fetch_raises(rp, url) == rp.state = "parsed" /\ BadQuoted(url)

\* allowed that does not keep the parser of a read that failed
robots_allowed_NoCacheOnFailure(cache, url, out, file) ==
    LET domain == urlparse(url).netloc
        miss == cache[domain] = Absent
        rp1 == robots_read(out, file)
        rp2 == IF rp1.state = "raised" THEN FreshParser ELSE rp1
        cache2 == IF miss /\ rp1.state # "raised"
                  THEN [cache EXCEPT ![domain] = rp2]
                  ELSE cache
        rp == IF miss THEN rp2 ELSE cache[domain]
    IN  [cache |-> cache2,
         read |-> miss,
         raised |-> FALSE,
         ok |-> IF can_fetch_raises(rp, url) THEN TRUE ELSE can_fetch(rp, url)]

\* allowed without its two try/except blocks
robots_allowed_Unguarded(cache, url, out, file) ==
    LET domain == urlparse(url).netloc
        miss == cache[domain] = Absent
        rp1 == robots_read(out, file)
        rp2 == IF rp1.state = "raised" THEN FreshParser ELSE rp1
        cache2 == IF miss /\ rp1.state # "raised"
                  THEN [cache EXCEPT ![domain] = rp2]
                  ELSE cache
        rp == IF miss THEN rp2 ELSE cache[domain]
    IN  [cache |-> cache2,
         read |-> miss,
         raised |-> (miss /\ rp1.state = "raised") \/ can_fetch_raises(rp, url),
         ok |-> IF can_fetch_raises(rp, url) THEN TRUE ELSE can_fetch(rp, url)]

\* RobotsCache.allowed(url): the cache after the call, whether rp.read() ran,
\* whether the call raised, and the answer; out and file are what rp.read()
\* meets if the netloc is not cached yet.  An exception of rp.read() is
\* caught and a new RobotFileParser() is cached; an exception of
\* rp.can_fetch is caught and the answer is True.
robots_allowed(cache, url, out, file) ==
    LET domain == urlparse(url).netloc
        miss == cache[domain] = Absent
        rp1 == robots_read(out, file)
        rp2 == IF rp1.state = "raised" THEN FreshParser ELSE rp1
        cache2 == IF miss
                  THEN [cache EXCEPT ![domain] = rp2]
                  ELSE cache
        rp == cache2[domain]
    IN  [cache |-> cache2,
         read |-> miss,
         raised |-> FALSE,
         ok |-> IF can_fetch_raises(rp, url) THEN TRUE ELSE can_fetch(rp, url)]

(***************************************************************************)
(* Fetcher (crawler/fetcher.py) with DomainRateLimiter (anti_bot.py).      *)
(***************************************************************************)
Fetchers == 1..NumFetchers

\* the URLs handed to fetch: http://a.e/x and http://b.e/x
FetchURLs ==
    { [scheme |-> "http", netloc |-> <<"a", ".", "e">>, path |-> "/x", fragment |-> ""],
      [scheme |-> "http", netloc |-> <<"b", ".", "e">>, path |-> "/x", fragment |-> ""] }

Netlocs == { get_domain(u) : u \in FetchURLs }

\* if status in (403, 429, 500, 502, 503)
RetryableStatuses == {403, 429, 500, 502, 503}

\* the status codes the servers of the model answer with; 451 (Unavailable For
\* Legal Reasons) is a status a server can send
Statuses == {200, 404, 451} \cup RetryableStatuses

\* r.text of a response
Bodies == {"b1", "b2"}

\* what `await client.get(url)` ends with: a response, an httpx.RequestError,
\* another exception
NetOutcomes ==
    { [kind |-> "response", status |-> st, text |-> b] :
        st \in Statuses, b \in Bodies }
        \cup { [kind |-> "RequestError", status |-> 0, text |-> ""],
               [kind |-> "Exception", status |-> 0, text |-> ""] }

\* a Fetcher configuration (the arguments of Fetcher.__init__), the number of
\* callers that use the Fetcher concurrently and the URLs they fetch
Config(n, initial, max, robots, proxies, delay, callers, urls) ==
    [max_retries |-> n, initial_ms |-> initial, max_ms |-> max,
     respect_robots |-> robots, proxies |-> proxies, delay_ms |-> delay,
     callers |-> callers, urls |-> urls]

\* the backoff settings of the model: (initial_ms, max_ms)
Backoffs == { <<1, 2>>, <<0, 2>>, <<1, 0>> }

OneURL == { CHOOSE u \in FetchURLs : u.netloc = <<"a", ".", "e">> }

\* one caller, every retry bound and backoff setting
RetryConfigs ==
    { Config(n, b[1], b[2], FALSE, <<>>, 0, 1, OneURL) :
        n \in 0..MaxRetries, b \in Backoffs }

\* robots.txt respected, with and without a proxy, with a per-domain delay
RobotsConfigs ==
    { Config(1, 1, 2, TRUE, px, 2, 1, FetchURLs) : px \in { <<>>, <<"p1">> } }

\* proxies and one caller, every backoff setting
ProxyConfigs ==
    { Config(MaxRetries, b[1], b[2], FALSE, px, 0, 1, OneURL) :
        b \in Backoffs, px \in { <<"p1">>, <<"p1", "p2">> } }

\* a proxy shared by two callers
SharedProxyConfigs ==
    { Config(1, 1, 2, FALSE, <<"p1">>, 0, 2, OneURL) }

\* the per-domain rate limiter: one caller that retries, several that do not
LimiterConfigs ==
    { Config(1, 1, 2, FALSE, <<>>, 2, 1, FetchURLs),
      Config(0, 1, 2, FALSE, <<>>, 2, NumFetchers, FetchURLs) }

\* the Fetcher configurations the model covers
Configs ==
    RetryConfigs \cup RobotsConfigs \cup ProxyConfigs \cup SharedProxyConfigs
        \cup LimiterConfigs

NoResult == [kind |-> "none", status |-> 0, text |-> ""]

\* no response a call returned from
NoResponse == [kind |-> "none", status |-> 0, text |-> ""]

\* the frame of a caller that is not inside fetch
IdleFrame ==
    [pc |-> "idle", url |-> NoURL, attempt |-> 0, proxy_used |-> None,
     temp_open |-> 0, delay |-> 0, remaining |-> 0,
     robots |-> "skipped", gets |-> 0, waits |-> 0, nexts |-> 0, sleeps |-> 0,
     all_retryable |-> TRUE, last |-> "none", r |-> NoResponse,
     result |-> NoResult]

\* the fetcher fields of the current state, as one record
World == [robots_cache |-> robots_cache, since |-> since, lock |-> lock,
          pool |-> pool, fp |-> fp]

SetWorld(W) ==
    /\ robots_cache' = W.robots_cache
    /\ since' = W.since
    /\ lock' = W.lock
    /\ pool' = W.pool
    /\ fp' = W.fp

\* the frame of a call that ended: its locals are gone, what the call did
\* and its result stay on record
Ended(fr, res) ==
    [fr EXCEPT !.pc = "done", !.attempt = 0, !.proxy_used = None, !.delay = 0,
               !.result = res]

\* return status, text
Return(W, f, status, text) ==
    [W EXCEPT !.fp[f] = Ended(@, [kind |-> "return", status |-> status,
                                  text |-> text])]

\* an exception leaves fetch
Raise(W, f) ==
    [W EXCEPT !.fp[f] = Ended(@, [kind |-> "raise", status |-> 0, text |-> ""])]

\* the head of `while attempt <= self.max_retries`, up to `await client.get`:
\* headers, proxy_used = proxy_used or self.proxy_pool.next(), the temporary
\* client of a proxied attempt; after the loop, return 599
LoopHead(W, f) ==
    IF W.fp[f].attempt > cfg.max_retries
    THEN Return(W, f, 599, "Max retries exceeded")
    ELSE LET held == W.fp[f].proxy_used
             r == pool_next(cfg.proxies, W.pool)
             proxy == IF held # None THEN held ELSE r.proxy
         IN  [W EXCEPT !.pool = IF held # None THEN @ ELSE r.pool,
                       !.fp[f].nexts = IF held # None THEN @ ELSE @ + 1,
                       !.fp[f].proxy_used = proxy,
                       !.fp[f].temp_open = IF proxy # None THEN @ + 1 ELSE @,
                       !.fp[f].gets = @ + 1,
                       !.fp[f].pc = "get"]

\* the end of a wait that keeps the lock: no release on the way out
LimiterExit_KeepLock(W, f) ==
    LET domain == get_domain(W.fp[f].url)
        W1 == [W EXCEPT !.since[domain] = 0]
    IN  LoopHead(W1, f)

\* the end of DomainRateLimiter.wait: last_request_ts[domain] = time.time(),
\* the lock is released (handed to the first waiter); fetch goes on to its loop
LimiterExit(W, f) ==
    LET domain == get_domain(W.fp[f].url)
        W1 == [W EXCEPT !.since[domain] = 0,
                        !.lock = IF W.lock.waiters = <<>>
                                 THEN [holder |-> 0, waiters |-> <<>>]
                                 ELSE [holder |-> Head(W.lock.waiters),
                                       waiters |-> Tail(W.lock.waiters)]]
    IN  LoopHead(W1, f)

\* DomainRateLimiter.wait with the lock held: sleep out the rest of delay_ms
LimiterLocked(W, f) ==
    LET domain == get_domain(W.fp[f].url)
        wait_s == cfg.delay_ms - W.since[domain]
    IN  IF wait_s > 0
        THEN [W EXCEPT !.fp[f].pc = "limiter_sleep", !.fp[f].remaining = wait_s]
        ELSE LimiterExit(W, f)

\* DomainRateLimiter.wait that does not take the lock
LimiterEnter_NoLock(W, f) ==
    LET W1 == [W EXCEPT !.fp[f].waits = @ + 1]
    IN  LimiterLocked([W1 EXCEPT !.lock.holder = f], f)

\* await self.rate_limiter.wait(domain): async with self._lock
LimiterEnter(W, f) ==
    LET W1 == [W EXCEPT !.fp[f].waits = @ + 1]
    IN  IF W1.lock.holder = 0 /\ W1.lock.waiters = <<>>
        THEN LimiterLocked([W1 EXCEPT !.lock.holder = f], f)
        ELSE [W1 EXCEPT !.lock.waiters = Append(@, f), !.fp[f].pc = "lock_wait"]

\* fetch that logs "Blocked by robots" and goes on instead of returning
FetchStart_NoReturn(W, f, url, out, file) ==
    LET W1 == [W EXCEPT !.fp[f] = [IdleFrame EXCEPT !.pc = "called", !.url = url]]
    IN  IF cfg.respect_robots
        THEN LET r == robots_allowed(W1.robots_cache, url, out, file)
                 W2 == [W1 EXCEPT !.robots_cache = r.cache,
                                  !.fp[f].robots = IF r.ok THEN "allowed" ELSE "denied"]
             IN  LimiterEnter(W2, f)
        ELSE LimiterEnter(W1, f)

\* fetch(url) from its call to its first suspension: the robots check, then
\* the rate limiter
FetchStart(W, f, url, out, file) ==
    LET W1 == [W EXCEPT !.fp[f] = [IdleFrame EXCEPT !.pc = "called", !.url = url]]
    IN  IF cfg.respect_robots
        THEN LET r == robots_allowed(W1.robots_cache, url, out, file)
                 W2 == [W1 EXCEPT !.robots_cache = r.cache,
                                  !.fp[f].robots = IF r.ok THEN "allowed" ELSE "denied"]
             IN  IF ~r.raised /\ ~r.ok
                 THEN Return(W2, f, 451, "Blocked by robots.txt")
                 ELSE LimiterEnter(W2, f)
        ELSE LimiterEnter(W1, f)

\* the temporary client of the attempt is closed, if there is one
CloseTemp(W, f) ==
    [W EXCEPT !.fp[f].temp_open = IF W.fp[f].proxy_used # None THEN @ - 1 ELSE @]

\* fetch that treats every exception of client.get as a network error
Classify_RetryUnexpected(W, f, out, t) ==
    LET fr == W.fp[f]
        d == compute_delay_ms(cfg.initial_ms, cfg.max_ms, fr.attempt + 1, t)
        retryable == \/ out.kind = "RequestError"
                     \/ out.kind = "response" /\ out.status \in RetryableStatuses
        W1 == [W EXCEPT !.fp[f].all_retryable = @ /\ retryable,
                        !.fp[f].last = out.kind]
    IN  CASE out.kind = "response" /\ out.status \in RetryableStatuses ->
                IF d.raised
                THEN Return(CloseTemp(W1, f), f, 520, "Unexpected error")
                ELSE [W1 EXCEPT !.fp[f].pc = "backoff_status",
                                !.fp[f].delay = d.tenths,
                                !.fp[f].remaining = sleep_ms(d.tenths),
                                !.fp[f].sleeps = @ + 1]
          [] out.kind = "response" /\ out.status \notin RetryableStatuses ->
                Return(CloseTemp([W1 EXCEPT !.pool = mark_success(@, fr.proxy_used),
                                            !.fp[f].r = out], f),
                       f, out.status, out.text)
          [] out.kind \in {"RequestError", "Exception"} ->
                IF d.raised
                THEN Raise(W1, f)
                ELSE [W1 EXCEPT !.fp[f].pc = "backoff_error",
                                !.fp[f].delay = d.tenths,
                                !.fp[f].remaining = sleep_ms(d.tenths),
                                !.fp[f].sleeps = @ + 1]
          [] OTHER -> Return(CloseTemp(W1, f), f, 520, "Unexpected error")

\* fetch that returns a response without proxy_pool.mark_success
Classify_NoMarkSuccess(W, f, out, t) ==
    LET fr == W.fp[f]
        d == compute_delay_ms(cfg.initial_ms, cfg.max_ms, fr.attempt + 1, t)
        retryable == \/ out.kind = "RequestError"
                     \/ out.kind = "response" /\ out.status \in RetryableStatuses
        W1 == [W EXCEPT !.fp[f].all_retryable = @ /\ retryable,
                        !.fp[f].last = out.kind]
    IN  CASE out.kind = "response" /\ out.status \in RetryableStatuses ->
                IF d.raised
                THEN Return(CloseTemp(W1, f), f, 520, "Unexpected error")
                ELSE [W1 EXCEPT !.fp[f].pc = "backoff_status",
                                !.fp[f].delay = d.tenths,
                                !.fp[f].remaining = sleep_ms(d.tenths),
                                !.fp[f].sleeps = @ + 1]
          [] out.kind = "response" /\ out.status \notin RetryableStatuses ->
                Return(CloseTemp([W1 EXCEPT !.fp[f].r = out], f),
                       f, out.status, out.text)
          [] out.kind = "RequestError" ->
                IF d.raised
                THEN Raise(W1, f)
                ELSE [W1 EXCEPT !.fp[f].pc = "backoff_error",
                                !.fp[f].delay = d.tenths,
                                !.fp[f].remaining = sleep_ms(d.tenths),
                                !.fp[f].sleeps = @ + 1]
          [] OTHER -> Return(CloseTemp(W1, f), f, 520, "Unexpected error")

\* fetch that counts an unexpected exception against the proxy it used
Classify_MarkOnUnexpected(W, f, out, t) ==
    LET fr == W.fp[f]
        d == compute_delay_ms(cfg.initial_ms, cfg.max_ms, fr.attempt + 1, t)
        retryable == \/ out.kind = "RequestError"
                     \/ out.kind = "response" /\ out.status \in RetryableStatuses
        W1 == [W EXCEPT !.fp[f].all_retryable = @ /\ retryable,
                        !.fp[f].last = out.kind]
    IN  CASE out.kind = "response" /\ out.status \in RetryableStatuses ->
                IF d.raised
                THEN Return(CloseTemp(W1, f), f, 520, "Unexpected error")
                ELSE [W1 EXCEPT !.fp[f].pc = "backoff_status",
                                !.fp[f].delay = d.tenths,
                                !.fp[f].remaining = sleep_ms(d.tenths),
                                !.fp[f].sleeps = @ + 1]
          [] out.kind = "response" /\ out.status \notin RetryableStatuses ->
                Return(CloseTemp([W1 EXCEPT !.pool = mark_success(@, fr.proxy_used),
                                            !.fp[f].r = out], f),
                       f, out.status, out.text)
          [] out.kind = "RequestError" ->
                IF d.raised
                THEN Raise(W1, f)
                ELSE [W1 EXCEPT !.fp[f].pc = "backoff_error",
                                !.fp[f].delay = d.tenths,
                                !.fp[f].remaining = sleep_ms(d.tenths),
                                !.fp[f].sleeps = @ + 1]
          [] OTHER ->
                Return(CloseTemp([W1 EXCEPT !.pool = mark_failure(@, fr.proxy_used)],
                                 f),
                       f, 520, "Unexpected error")

\* the attempt's `await client.get` ended with out; t is the clock reading the
\* backoff jitter is computed from
Classify(W, f, out, t) ==
    LET fr == W.fp[f]
        d == compute_delay_ms(cfg.initial_ms, cfg.max_ms, fr.attempt + 1, t)
        retryable == \/ out.kind = "RequestError"
                     \/ out.kind = "response" /\ out.status \in RetryableStatuses
        W1 == [W EXCEPT !.fp[f].all_retryable = @ /\ retryable,
                        !.fp[f].last = out.kind]
    IN  CASE out.kind = "response" /\ out.status \in RetryableStatuses ->
                IF d.raised
                THEN Return(CloseTemp(W1, f), f, 520, "Unexpected error")
                ELSE [W1 EXCEPT !.fp[f].pc = "backoff_status",
                                !.fp[f].delay = d.tenths,
                                !.fp[f].remaining = sleep_ms(d.tenths),
                                !.fp[f].sleeps = @ + 1]
          [] out.kind = "response" /\ out.status \notin RetryableStatuses ->
                Return(CloseTemp([W1 EXCEPT !.pool = mark_success(@, fr.proxy_used),
                                            !.fp[f].r = out], f),
                       f, out.status, out.text)
          [] out.kind = "RequestError" ->
                IF d.raised
                THEN Raise(W1, f)
                ELSE [W1 EXCEPT !.fp[f].pc = "backoff_error",
                                !.fp[f].delay = d.tenths,
                                !.fp[f].remaining = sleep_ms(d.tenths),
                                !.fp[f].sleeps = @ + 1]
          [] OTHER -> Return(CloseTemp(W1, f), f, 520, "Unexpected error")

\* after the backoff sleep: attempt += 1, mark_failure(proxy_used),
\* proxy_used = None; the except branch also closes the temporary client;
\* then the loop goes round
AfterBackoff(W, f) ==
    LET fr == W.fp[f]
        W1 == IF fr.pc = "backoff_error" THEN CloseTemp(W, f) ELSE W
        W2 == [W1 EXCEPT !.pool = mark_failure(@, fr.proxy_used),
                         !.fp[f].attempt = @ + 1,
                         !.fp[f].proxy_used = None,
                         !.fp[f].delay = 0]
    IN  LoopHead(W2, f)

FetchInit ==
    /\ cfg \in Configs
    /\ robots_cache = [d \in Netlocs |-> Absent]
    /\ since = [d \in Netlocs |-> cfg.delay_ms]
    /\ lock = [holder |-> 0, waiters |-> <<>>]
    /\ pool = pool_init(cfg.proxies)
    /\ fp = [f \in Fetchers |-> IdleFrame]

\* what rp.read() can meet when fetch(url) is called: it is called only if
\* robots.txt is respected and the netloc is not cached; only a robots.txt
\* that parses has a content
ReadsOf(url) ==
    IF cfg.respect_robots /\ robots_cache[urlparse(url).netloc] = Absent
    THEN ReadOutcomes
    ELSE {"ok"}

FilesOf(out) == IF out = "ok" THEN RobotsFiles ELSE { {} }

\* the clock readings that matter to an attempt that ended with out: the
\* clock is read only to compute a backoff delay
ClockOf(out) ==
    IF out.kind = "RequestError"
          \/ (out.kind = "response" /\ out.status \in RetryableStatuses)
    THEN ClockValues
    ELSE {0}

\* a caller calls fetch(url)
FetchCall(f, url) ==
    /\ f <= cfg.callers
    /\ url \in cfg.urls
    /\ fp[f].pc \in {"idle", "done"}
    /\ \E out \in ReadsOf(url) : \E file \in FilesOf(out) :
          SetWorld(FetchStart(World, f, url, out, file))
    /\ UNCHANGED <<cfg, schedVars, unitVars>>

\* the lock was handed to a caller waiting for it
LockGranted(f) ==
    /\ fp[f].pc = "lock_wait"
    /\ lock.holder = f
    /\ SetWorld(LimiterLocked(World, f))
    /\ UNCHANGED <<cfg, schedVars, unitVars>>

\* the sleep inside DomainRateLimiter.wait is over
LimiterWake(f) ==
    /\ fp[f].pc = "limiter_sleep"
    /\ fp[f].remaining = 0
    /\ SetWorld(LimiterExit(World, f))
    /\ UNCHANGED <<cfg, schedVars, unitVars>>

\* `await client.get(url, headers=headers)` ends
NetResponse(f, out) ==
    /\ fp[f].pc = "get"
    /\ \E t \in ClockOf(out) : SetWorld(Classify(World, f, out, t))
    /\ UNCHANGED <<cfg, schedVars, unitVars>>

\* the backoff sleep is over
BackoffWake(f) ==
    /\ fp[f].pc \in {"backoff_status", "backoff_error"}
    /\ fp[f].remaining = 0
    /\ SetWorld(AfterBackoff(World, f))
    /\ UNCHANGED <<cfg, schedVars, unitVars>>

\* one millisecond passes
Tick ==
    /\ \/ \E d \in Netlocs : since[d] < cfg.delay_ms
       \/ \E f \in Fetchers : fp[f].remaining > 0
    /\ since' = [d \in Netlocs |-> Min(since[d] + 1, cfg.delay_ms)]
    /\ fp' = [f \in Fetchers |-> [fp[f] EXCEPT !.remaining = Max(@ - 1, 0)]]
    /\ UNCHANGED <<cfg, robots_cache, lock, pool, schedVars, unitVars>>

FetchNext ==
    \/ \E f \in Fetchers : \E url \in FetchURLs : FetchCall(f, url)
    \/ \E f \in Fetchers : LockGranted(f)
    \/ \E f \in Fetchers : LimiterWake(f)
    \/ \E f \in Fetchers : \E out \in NetOutcomes : NetResponse(f, out)
    \/ \E f \in Fetchers : BackoffWake(f)
    \/ Tick

\* the fetcher of a state in which only the scheduler is looked at
FetchIdle ==
    /\ cfg = Config(0, 1, 2, FALSE, <<>>, 0, 0, {})
    /\ robots_cache = [d \in Netlocs |-> Absent]
    /\ since = [d \in Netlocs |-> 0]
    /\ lock = [holder |-> 0, waiters |-> <<>>]
    /\ pool = pool_init(<<>>)
    /\ fp = [f \in Fetchers |-> IdleFrame]

\* the scheduler of a state in which only the fetcher is looked at
SchedIdle ==
    /\ allowed_domains = <<>>
    /\ seeds = <<>>
    /\ concurrency = 0
    /\ queue = <<>>
    /\ seen = {}
    /\ unfinished = 0
    /\ lastEnq = [res |-> "none", url |-> NoURL]
    /\ pushes = 0
    /\ tasks = <<>>
    /\ runpc = "idle"
    /\ handled = [u \in NormURLs |-> 0]
    /\ outcome = [u \in NormURLs |-> "none"]

(***************************************************************************)
(* The classes on their own: ProxyPool, RobotsCache and BackoffStrategy    *)
(* under every sequence of calls.                                          *)
(***************************************************************************)
NoPoolCall == [op |-> "none", proxy |-> None, examined |-> 0, before |-> 0]

NoRobotsCall == [url |-> NoURL, ok |-> FALSE, raised |-> FALSE, read |-> FALSE]

\* robots.txt of a netloc was not fetched: n counts the fetches, out is what
\* the first one met
NoRead == [n |-> 0, out |-> "none", url |-> NoURL]

NoDelayCall == [attempt |-> 0, t |-> 0, raised |-> FALSE, tenths |-> 0]

\* no call of the classes on their own was made
UnitIdle ==
    /\ pcall = NoPoolCall
    /\ streak = [p \in {} |-> 0]
    /\ rcall = NoRobotsCall
    /\ reads = [d \in Netlocs |-> NoRead]
    /\ dcall = NoDelayCall
    /\ dprev = NoDelayCall

\* ---- ProxyPool ----
ProxyNames == <<"p1", "p2", "p3", "p4", "p5">>

\* the proxy lists a ProxyPool is constructed with
ProxyLists == { SubSeq(ProxyNames, 1, n) : n \in 0..MaxProxies }

ProxiesOf(proxies) == { proxies[i] : i \in DOMAIN proxies }

\* ProxyPool(proxies), nothing else in use
PoolInit ==
    /\ \E px \in ProxyLists :
          /\ cfg = Config(0, 1, 2, FALSE, px, 0, 0, {})
          /\ pool = pool_init(px)
          /\ streak = [p \in ProxiesOf(px) |-> 0]
    /\ pcall = NoPoolCall
    /\ robots_cache = [d \in Netlocs |-> Absent]
    /\ since = [d \in Netlocs |-> 0]
    /\ lock = [holder |-> 0, waiters |-> <<>>]
    /\ fp = [f \in Fetchers |-> IdleFrame]
    /\ rcall = NoRobotsCall
    /\ reads = [d \in Netlocs |-> NoRead]
    /\ dcall = NoDelayCall
    /\ dprev = NoDelayCall
    /\ SchedIdle

PoolUnchanged ==
    UNCHANGED <<schedVars, cfg, robots_cache, since, lock, fp,
                rcall, reads, dcall, dprev>>

\* proxy_pool.next()
PoolNext ==
    /\ LET r == pool_next(cfg.proxies, pool)
       IN  /\ pool' = r.pool
           /\ pcall' = [op |-> "next", proxy |-> r.proxy,
                        examined |-> r.examined, before |-> 0]
    /\ UNCHANGED streak
    /\ PoolUnchanged

\* the counter a mark_failure / mark_success call finds
CounterOf(pl, proxy) == IF proxy = None THEN 0 ELSE pl.fail_counts[proxy]

\* proxy_pool.mark_failure(proxy)
PoolMarkFailure(proxy) ==
    /\ proxy \in ProxiesOf(cfg.proxies) \cup {None}
    /\ CounterOf(pool, proxy) < MaxFailures
    /\ pool' = mark_failure(pool, proxy)
    /\ pcall' = [op |-> "mark_failure", proxy |-> proxy, examined |-> 0,
                 before |-> CounterOf(pool, proxy)]
    /\ streak' = IF proxy = None THEN streak
                 ELSE [streak EXCEPT ![proxy] = @ + 1]
    /\ PoolUnchanged

\* proxy_pool.mark_success(proxy)
PoolMarkSuccess(proxy) ==
    /\ proxy \in ProxiesOf(cfg.proxies) \cup {None}
    /\ pool' = mark_success(pool, proxy)
    /\ pcall' = [op |-> "mark_success", proxy |-> proxy, examined |-> 0,
                 before |-> CounterOf(pool, proxy)]
    /\ streak' = IF proxy = None THEN streak
                 ELSE [streak EXCEPT ![proxy] = 0]
    /\ PoolUnchanged

PoolStep ==
    \/ PoolNext
    \/ \E proxy \in ProxiesOf(ProxyNames) \cup {None} : PoolMarkFailure(proxy)
    \/ \E proxy \in ProxiesOf(ProxyNames) \cup {None} : PoolMarkSuccess(proxy)

PoolSpec == PoolInit /\ [][PoolStep]_vars

\* ---- RobotsCache ----
\* the URLs allowed is asked about:
\*   http://a.e/x   http://a.e/y   http://A.e/x   https://a.e/x   http://%5Bx/x
RobotsURLs ==
    { [scheme |-> "http", netloc |-> <<"a", ".", "e">>, path |-> "/x", fragment |-> ""],
      [scheme |-> "http", netloc |-> <<"a", ".", "e">>, path |-> "/y", fragment |-> ""],
      [scheme |-> "http", netloc |-> <<"A", ".", "e">>, path |-> "/x", fragment |-> ""],
      [scheme |-> "https", netloc |-> <<"a", ".", "e">>, path |-> "/x", fragment |-> ""],
      [scheme |-> "http", netloc |-> <<"%", "5", "B", "x">>, path |-> "/x", fragment |-> ""] }

RobotsNetlocs == { urlparse(u).netloc : u \in RobotsURLs }

\* RobotsCache(), nothing else in use
RobotsInit ==
    /\ robots_cache = [d \in RobotsNetlocs |-> Absent]
    /\ reads = [d \in RobotsNetlocs |-> NoRead]
    /\ rcall = NoRobotsCall
    /\ cfg = Config(0, 1, 2, TRUE, <<>>, 0, 0, {})
    /\ since = [d \in Netlocs |-> 0]
    /\ lock = [holder |-> 0, waiters |-> <<>>]
    /\ pool = pool_init(<<>>)
    /\ fp = [f \in Fetchers |-> IdleFrame]
    /\ pcall = NoPoolCall
    /\ streak = [p \in {} |-> 0]
    /\ dcall = NoDelayCall
    /\ dprev = NoDelayCall
    /\ SchedIdle

\* robots.allowed(url); rp.read() meets out and file if it runs
RobotsAllowed(url, out, file) ==
    /\ out \in (IF robots_cache[urlparse(url).netloc] = Absent
                THEN ReadOutcomes ELSE {"ok"})
    /\ file \in FilesOf(out)
    /\ LET r == robots_allowed(robots_cache, url, out, file)
           domain == urlparse(url).netloc
       IN  /\ robots_cache' = r.cache
           /\ rcall' = [url |-> url, ok |-> r.ok, raised |-> r.raised,
                        read |-> r.read]
           /\ reads' = IF r.read
                       THEN [reads EXCEPT ![domain] =
                                [n |-> @.n + 1,
                                 out |-> IF @.n = 0 THEN out ELSE @.out,
                                 url |-> IF @.n = 0 THEN robots_url(url)
                                         ELSE @.url]]
                       ELSE reads
    /\ UNCHANGED <<schedVars, cfg, since, lock, pool, fp,
                   pcall, streak, dcall, dprev>>

RobotsStep ==
    \E url \in RobotsURLs : \E out \in ReadOutcomes : \E file \in RobotsFiles :
        RobotsAllowed(url, out, file)

RobotsSpec == RobotsInit /\ [][RobotsStep]_vars

\* ---- BackoffStrategy ----
\* BackoffStrategy(initial_ms, max_ms), nothing else in use
BackoffInit ==
    /\ \E i \in 0..MaxInitialMs : \E m \in 0..MaxMaxMs :
          cfg = Config(0, i, m, FALSE, <<>>, 0, 0, {})
    /\ dcall = NoDelayCall
    /\ dprev = NoDelayCall
    /\ robots_cache = [d \in Netlocs |-> Absent]
    /\ since = [d \in Netlocs |-> 0]
    /\ lock = [holder |-> 0, waiters |-> <<>>]
    /\ pool = pool_init(<<>>)
    /\ fp = [f \in Fetchers |-> IdleFrame]
    /\ pcall = NoPoolCall
    /\ streak = [p \in {} |-> 0]
    /\ rcall = NoRobotsCall
    /\ reads = [d \in Netlocs |-> NoRead]
    /\ SchedIdle

\* backoff.compute_delay_ms(attempt) while the event-loop clock reads t
ComputeDelay(attempt, t) ==
    /\ LET d == compute_delay_ms(cfg.initial_ms, cfg.max_ms, attempt, t)
       IN  dcall' = [attempt |-> attempt, t |-> t, raised |-> d.raised,
                     tenths |-> d.tenths]
    /\ dprev' = dcall
    /\ UNCHANGED <<schedVars, fetchVars, pcall, streak, rcall, reads>>

BackoffStep ==
    \E attempt \in 1..MaxAttempt : \E t \in 0..MaxJitterClock :
        ComputeDelay(attempt, t)

BackoffSpec == BackoffInit /\ [][BackoffStep]_vars

\* ---- Scheduler.enqueue and its scope filter ----
\* the URLs offered to enqueue:
\*   http://a.e/x  http://na.e/x  HTTP://A.E/x#f  http://a.e:80/x
\*   http://u@a.e/x  x/y  http:////a.e/x  http://b.e/x
ScopeURLs ==
    { [scheme |-> "http", netloc |-> <<"a", ".", "e">>, path |-> "/x", fragment |-> ""],
      [scheme |-> "http", netloc |-> <<"n", "a", ".", "e">>, path |-> "/x",
       fragment |-> ""],
      [scheme |-> "HTTP", netloc |-> <<"A", ".", "E">>, path |-> "/x", fragment |-> "f"],
      [scheme |-> "http", netloc |-> <<"a", ".", "e", ":", "8", "0">>, path |-> "/x",
       fragment |-> ""],
      [scheme |-> "http", netloc |-> <<"u", "@", "a", ".", "e">>, path |-> "/x",
       fragment |-> ""],
      [scheme |-> "", netloc |-> <<>>, path |-> "x/y", fragment |-> ""],
      [scheme |-> "http", netloc |-> <<>>, path |-> "//a.e/x", fragment |-> ""],
      [scheme |-> "http", netloc |-> <<"b", ".", "e">>, path |-> "/x", fragment |-> ""] }

\* the entries of allowed_domains: "a.e", "A.E", "e:80", "c.e" and ""
ScopeDomains ==
    { <<"a", ".", "e">>, <<"A", ".", "E">>, <<"e", ":", "8", "0">>,
      <<"c", ".", "e">>, <<>> }

ScopeLists == UNION { [1..n -> ScopeDomains] : n \in 0..2 }

\* Scheduler(seeds=[], allowed_domains), not run
ScopeInit ==
    /\ allowed_domains \in ScopeLists
    /\ seeds = <<>>
    /\ concurrency = 0
    /\ queue = EmptyFrontier.queue
    /\ seen = EmptyFrontier.seen
    /\ unfinished = EmptyFrontier.unfinished
    /\ lastEnq = EmptyFrontier.lastEnq
    /\ pushes = EmptyFrontier.pushes
    /\ tasks = <<>>
    /\ runpc = "idle"
    /\ handled = [u \in NormURLs |-> 0]
    /\ outcome = [u \in NormURLs |-> "none"]
    /\ FetchIdle
    /\ UnitIdle

\* scheduler.enqueue(raw)
ScopeEnqueue(raw) ==
    /\ pushes < MaxScopeCalls
    /\ LET st == enqueue(Frontier, allowed_domains, raw)
       IN  /\ queue' = st.queue
           /\ seen' = st.seen
           /\ unfinished' = st.unfinished
           /\ lastEnq' = st.lastEnq
           /\ pushes' = st.pushes
    /\ UNCHANGED <<allowed_domains, seeds, concurrency, tasks, runpc, handled,
                   outcome>>
    /\ UNCHANGED <<fetchVars, unitVars>>

ScopeStep == \E raw \in ScopeURLs : ScopeEnqueue(raw)

ScopeSpec == ScopeInit /\ [][ScopeStep]_vars

FetchSpecInit == FetchInit /\ SchedIdle /\ UnitIdle

FetchSpec == FetchSpecInit /\ [][FetchNext]_vars

\* a Fetcher looked at for its DomainRateLimiter: delay_ms > 0, several callers
LimiterInit == FetchSpecInit /\ cfg \in LimiterConfigs

(***************************************************************************)
(* Fairness of the event loop for the rate limiter: a caller that was      *)
(* handed the lock runs, a sleep that is over returns, and time passes.    *)
(***************************************************************************)
LimiterFairness ==
    /\ WF_vars(Tick)
    /\ \A f \in Fetchers :
        /\ WF_vars(LockGranted(f))
        /\ WF_vars(LimiterWake(f))

\* the rate limiter does not look at what an attempt ends with: every
\* attempt is answered with 200
LimiterOutcome == [kind |-> "response", status |-> 200, text |-> "b1"]

LimiterNext ==
    \/ \E f \in Fetchers : \E url \in FetchURLs : FetchCall(f, url)
    \/ \E f \in Fetchers : LockGranted(f)
    \/ \E f \in Fetchers : LimiterWake(f)
    \/ \E f \in Fetchers : NetResponse(f, LimiterOutcome)
    \/ Tick

LimiterSpec == LimiterInit /\ [][LimiterNext]_vars /\ LimiterFairness

Workers == 0..(MaxConc - 1)

Next ==
    \/ RunStart
    \/ \E w \in Workers : WorkerGet(w)
    \/ \E w \in Workers : \E raw \in RawURLs : HandlerEnqueue(w, raw)
    \/ \E w \in Workers : HandlerReturn(w)
    \/ \E w \in Workers : HandlerRaise(w)
    \/ RunCancel
    \/ \E w \in Workers : WorkerCancelled(w)

Init == SchedInit /\ FetchIdle /\ UnitIdle

Spec == Init /\ [][Next]_vars

(***************************************************************************)
(* Fairness of the scheduler: the event loop runs every task that is ready *)
(* (a worker whose queue.get() can return, the run coroutine once join()   *)
(* was woken, a cancelled task), and every handler invocation ends.        *)
(***************************************************************************)
SchedFairness ==
    /\ WF_vars(RunCancel)
    /\ \A w \in Workers :
        /\ WF_vars(WorkerGet(w))
        /\ WF_vars(HandlerReturn(w) \/ HandlerRaise(w))
        /\ WF_vars(WorkerCancelled(w))

FairSpec == Init /\ [][Next]_vars /\ SchedFairness

(***************************************************************************)
(* Properties of the scheduler.                                            *)
(***************************************************************************)
Range(f) == { f[i] : i \in DOMAIN f }

InFlight == { w \in DOMAIN tasks : tasks[w].pc = "handling" }

\* the normalized seeds that pass the scope filter
SeedURLs ==
    { normalize_url(seeds[i]) : i \in
        { j \in DOMAIN seeds :
            allowed_domains = <<>> \/ same_domain(normalize_url(seeds[j]), allowed_domains) } }

RECURSIVE SumOver(_, _)
SumOver(f, S) ==
    IF S = {} THEN 0
    ELSE LET x == CHOOSE y \in S : TRUE IN f[x] + SumOver(f, S \ {x})

\* C1: enqueue is idempotent per normalized URL: in every reachable scheduler
\* state, for every URL u and every URL v with the same normalized form, after
\* enqueue(u) a further enqueue(v) leaves the queue length and the seen-set
\* size unchanged.
C1_EnqueueIdempotent ==
    \A u \in RawURLs : \A v \in RawURLs :
        normalize_url(u) = normalize_url(v) =>
            LET s1 == enqueue(Frontier, allowed_domains, u)
                s2 == enqueue(s1, allowed_domains, v)
            IN  /\ Len(s2.queue) = Len(s1.queue)
                /\ Cardinality(s2.seen) = Cardinality(s1.seen)
                /\ s2.unfinished = s1.unfinished

\* a handler's enqueue call was dropped as a duplicate while the run goes on
C1_Witness ==
    /\ runpc = "join"
    /\ lastEnq.res = "seen"
    /\ lastEnq.url \in seen

\* C2: with a non-empty allow-list, no URL outside it is ever in the queue or
\* in the seen-set (nor handed to the handler).
C2_ScopeNeverLeaks ==
    allowed_domains # <<>> =>
        /\ \A u \in seen : same_domain(u, allowed_domains)
        /\ \A u \in Range(queue) : same_domain(u, allowed_domains)
        /\ \A u \in NormURLs : handled[u] > 0 => same_domain(u, allowed_domains)

\* an out-of-scope URL was offered to enqueue during the run and is nowhere
C2_Witness ==
    /\ allowed_domains # <<>>
    /\ runpc = "join"
    /\ lastEnq.res = "scope"
    /\ ~same_domain(lastEnq.url, allowed_domains)
    /\ lastEnq.url \notin seen
    /\ seen # {}

\* C3: no duplicate visits: handler(url) is invoked at most once per normalized
\* URL, a URL is in the queue at most once, and a URL that was dispatched (its
\* handler running, returned or raised) is never in the queue again.
C3_NoDuplicateVisits ==
    /\ \A u \in NormURLs : handled[u] <= 1
    /\ \A i \in DOMAIN queue : \A j \in DOMAIN queue : queue[i] = queue[j] => i = j
    /\ \A u \in Range(queue) : handled[u] = 0 /\ u \in seen
    /\ \A u \in NormURLs : handled[u] > 0 => u \in seen

\* a URL whose handler raised was offered again and dropped
C3_Witness ==
    /\ lastEnq.res = "seen"
    /\ lastEnq.url \in NormURLs
    /\ outcome[lastEnq.url] = "raised"
    /\ lastEnq.url \notin Range(queue)

\* C4: when run returns (join() was woken), the queue is drained: every URL
\* ever pushed was popped and its handler returned or raised; while a handler
\* is still running, run stays suspended.
C4_RunReturnsDrained ==
    /\ runpc \in {"woken", "returned"} =>
        /\ queue = <<>>
        /\ InFlight = {}
        /\ \A u \in seen : handled[u] = 1 /\ outcome[u] \in {"returned", "raised"}
    /\ InFlight # {} => runpc = "join"

\* run returned after handling a URL that a handler discovered during the run
C4_Witness ==
    /\ runpc = "returned"
    /\ \E u \in seen : u \notin SeedURLs /\ outcome[u] # "none"

\* C5: with concurrency >= 1 (handlers terminate, finitely many URLs), a run
\* that suspended in join() eventually returns with the queue empty; and when
\* the handlers added nothing to the seeds, a returned run made exactly one
\* dispatch per distinct in-scope normalized seed.
C5_DispatchCount ==
    (runpc = "returned" /\ concurrency >= 1 /\ seen = SeedURLs) =>
        /\ SumOver(handled, NormURLs) = Cardinality(SeedURLs)
        /\ \A u \in SeedURLs : handled[u] = 1

C5_RunTerminates ==
    /\ []C5_DispatchCount
    /\ (runpc = "join" /\ concurrency >= 1) ~> (runpc = "returned" /\ queue = <<>>)

\* one in-scope seed, nothing discovered: run returned after one dispatch
C5_Witness ==
    /\ runpc = "returned"
    /\ concurrency >= 1
    /\ Cardinality(SeedURLs) = 1
    /\ seen = SeedURLs
    /\ SumOver(handled, NormURLs) = 1
    /\ queue = <<>>

\* C6: run spawns exactly `concurrency` worker tasks, and at most
\* `concurrency` handler invocations are in flight.
C6_BoundedConcurrency ==
    /\ runpc # "idle" => DOMAIN tasks = 0..(concurrency - 1)
    /\ runpc = "idle" => DOMAIN tasks = {}
    /\ Cardinality(InFlight) <= concurrency

\* two workers, both inside a handler
C6_Witness ==
    /\ concurrency = 2
    /\ Cardinality(InFlight) = 2

\* C7: a handler that raises does not end its worker: in the step in which
\* worker(url) raises, the item is marked done and the worker is back at
\* queue.get(); a worker task ends only by cancellation; and the run still
\* drains and returns.
C7_RaiseStep ==
    \A w \in DOMAIN tasks :
        (tasks[w].pc = "handling" /\ tasks'[w].pc # "handling"
            /\ outcome'[tasks[w].url] = "raised") =>
            /\ tasks'[w].pc = "ready"
            /\ unfinished' = unfinished - 1

C7_HandlerFailureIsolated ==
    /\ [][C7_RaiseStep]_vars
    /\ [](\A w \in DOMAIN tasks :
            /\ tasks[w].pc \in {"ready", "handling", "cancelled"}
            /\ tasks[w].pc = "cancelled" => tasks[w].cancel)
    /\ (runpc = "join" /\ concurrency >= 1 /\ \E u \in NormURLs : outcome[u] = "raised")
          ~> (runpc = "returned")

\* the only worker handles a further URL after a handler of its raised
C7_Witness ==
    /\ concurrency = 1
    /\ DOMAIN tasks = {0}
    /\ tasks[0].pc = "handling"
    /\ \E u \in NormURLs : outcome[u] = "raised"

\* C8: no worker is cancelled before the drain, after run returns every worker
\* has had cancellation requested, and no handler is invoked after that.
C8_CancelState ==
    /\ \A w \in DOMAIN tasks :
          tasks[w].cancel =>
              /\ runpc = "returned"
              /\ queue = <<>>
              /\ unfinished = 0
              /\ InFlight = {}
              /\ \A u \in seen : outcome[u] # "none"
    /\ runpc = "returned" => \A w \in DOMAIN tasks : tasks[w].cancel

C8_CancelAfterDrain ==
    /\ []C8_CancelState
    /\ [][runpc = "returned" => handled' = handled]_vars

\* run returned after real work and a cancelled worker ended
C8_Witness ==
    /\ runpc = "returned"
    /\ concurrency = 2
    /\ \E u \in seen : outcome[u] # "none"
    /\ \E w \in DOMAIN tasks : tasks[w].pc = "cancelled"
    /\ \A w \in DOMAIN tasks : tasks[w].cancel

(***************************************************************************)
(* Properties of Fetcher.fetch.                                            *)
(***************************************************************************)
\* C9: a fetch that robots.txt denies returns 451 and has called neither the
\* rate limiter nor the proxy pool, issued no GET and slept no backoff; the
\* step of that call leaves limiter, lock and proxy pool as they were.
C9_BlockedFrame ==
    \A f \in Fetchers :
        (fp[f].pc = "done" /\ fp[f].robots = "denied") =>
            /\ cfg.respect_robots
            /\ fp[f].result = [kind |-> "return", status |-> 451,
                               text |-> "Blocked by robots.txt"]
            /\ fp[f].waits = 0
            /\ fp[f].gets = 0
            /\ fp[f].nexts = 0
            /\ fp[f].sleeps = 0

C9_BlockedStep ==
    \A f \in Fetchers :
        (fp'[f] # fp[f] /\ fp'[f].pc = "done" /\ fp'[f].robots = "denied") =>
            /\ since' = since
            /\ lock' = lock
            /\ pool' = pool

C9_RobotsBlockTouchesNothing ==
    /\ []C9_BlockedFrame
    /\ [][C9_BlockedStep]_vars

\* a call was denied by robots.txt under a configuration with a proxy and a
\* per-domain delay
C9_Witness ==
    \E f \in Fetchers :
        /\ fp[f].pc = "done"
        /\ fp[f].robots = "denied"
        /\ fp[f].result.status = 451
        /\ cfg.proxies # <<>>
        /\ cfg.delay_ms > 0

\* C10: a fetch whose every attempt ended retryably (a status in
\* {403, 429, 500, 502, 503} or a network-level error) made exactly
\* max_retries + 1 attempts and returned 599.
C10_RetriesExhausted ==
    \A f \in Fetchers :
        (fp[f].pc = "done" /\ fp[f].gets >= 1 /\ fp[f].all_retryable) =>
            /\ fp[f].gets = cfg.max_retries + 1
            /\ fp[f].result = [kind |-> "return", status |-> 599,
                               text |-> "Max retries exceeded"]

(***************************************************************************)
(* C11: a fetch whose every attempt had a retryable outcome and that ran   *)
(* to the retries-exhausted sentinel made exactly max_retries backoff      *)
(* sleeps: no backoff sleep follows the final attempt.                     *)
(***************************************************************************)
C11_SleepsEqualRetries ==
    \A f \in Fetchers :
        (/\ fp[f].pc = "done"
         /\ fp[f].gets >= 1
         /\ fp[f].all_retryable
         /\ fp[f].result.kind = "return"
         /\ fp[f].result.status = 599) =>
            fp[f].sleeps = cfg.max_retries

(***************************************************************************)
(* C12: within one fetch call DomainRateLimiter.wait is invoked before     *)
(* every network attempt, retries included: a call never has made more     *)
(* GETs than limiter waits.                                                *)
(***************************************************************************)
C12_WaitBeforeEveryAttempt ==
    \A f \in Fetchers : fp[f].gets <= fp[f].waits

(***************************************************************************)
(* C13: two GETs to the same domain start at least delay_ms apart: when a  *)
(* GET starts, at least delay_ms have passed since the domain's last       *)
(* request stamp, which no GET to the domain is older than.                *)
(***************************************************************************)
C13_GetStarts(f) ==
    /\ fp'[f].pc = "get"
    /\ fp'[f].gets # fp[f].gets

C13_MinimumSpacing ==
    [][\A f \in Fetchers :
          C13_GetStarts(f) =>
              since[get_domain(fp'[f].url)] >= cfg.delay_ms]_vars

(***************************************************************************)
(* C14: Fetcher.fetch never raises: every call that ended returned a       *)
(* (status, body) pair.                                                    *)
(***************************************************************************)
C14_FetchNeverRaises ==
    \A f \in Fetchers :
        fp[f].pc = "done" => fp[f].result.kind = "return"

(***************************************************************************)
(* C15: when client.get raises an exception that is not a network-level    *)
(* error, the call ends in that step with the unexpected-error sentinel    *)
(* 520: no backoff sleep, no further GET, whatever attempts remain.        *)
(***************************************************************************)
C15_UnexpectedStep ==
    \A f \in Fetchers :
        (fp[f].pc = "get" /\ fp'[f].last = "Exception") =>
            /\ fp'[f].pc = "done"
            /\ fp'[f].result = [kind |-> "return", status |-> 520,
                                text |-> "Unexpected error"]
            /\ fp'[f].gets = fp[f].gets
            /\ fp'[f].sleeps = fp[f].sleeps
            /\ pool' = pool

C15_UnexpectedFailsFast == [][C15_UnexpectedStep]_vars

\* an unexpected exception ended a call that had attempts left
C15_Witness ==
    \E f \in Fetchers :
        /\ fp[f].pc = "done"
        /\ fp[f].last = "Exception"
        /\ fp[f].result.status = 520
        /\ fp[f].gets <= cfg.max_retries

(***************************************************************************)
(* C16: when an attempt yields a response whose status is not retryable,   *)
(* the call ends in that step: the failure counter of the proxy used is    *)
(* reset to 0 and (status, body) of that response is returned, with no     *)
(* further GET and no backoff sleep.                                       *)
(***************************************************************************)
C16_ResponseStep ==
    \A f \in Fetchers :
        (fp[f].pc = "get" /\ fp'[f].r.kind = "response") =>
            /\ fp'[f].r.status \notin RetryableStatuses
            /\ fp'[f].pc = "done"
            /\ fp'[f].result = [kind |-> "return", status |-> fp'[f].r.status,
                                text |-> fp'[f].r.text]
            /\ fp'[f].gets = fp[f].gets
            /\ fp'[f].sleeps = fp[f].sleeps
            /\ pool'.idx = pool.idx
            /\ \A p \in DOMAIN pool.fail_counts :
                  pool'.fail_counts[p] =
                      IF p = fp[f].proxy_used THEN 0 ELSE pool.fail_counts[p]

C16_ResponseReturned ==
    /\ [][C16_ResponseStep]_vars
    /\ [](\A f \in Fetchers :
            (fp[f].pc = "done" /\ fp[f].last = "response"
                /\ ~fp[f].all_retryable)
                => fp[f].r.kind = "response")

\* a proxy that had failed once answered 404 on the retry, and its counter
\* is back at 0
C16_Witness ==
    \E f \in Fetchers :
        /\ fp[f].pc = "done"
        /\ fp[f].r.kind = "response"
        /\ fp[f].result.status = 404
        /\ fp[f].gets = 2
        /\ cfg.proxies = <<"p1">>
        /\ pool.fail_counts["p1"] = 0

(***************************************************************************)
(* C17: after every retryable outcome of an attempt that used proxy p the  *)
(* retry treatment follows: the call goes to its backoff, and when it goes *)
(* on p's failure counter is one higher, the attempt index is one higher   *)
(* and the next attempt takes its proxy from a fresh ProxyPool.next().     *)
(***************************************************************************)
C17_Backoffs == {"backoff_status", "backoff_error"}

\* a retryable outcome starts the retry treatment
C17_OutcomeStep ==
    \A f \in Fetchers :
        (/\ fp[f].pc = "get"
         /\ fp[f].proxy_used # None
         /\ fp'[f].pc # "get"
         /\ fp'[f].last \in {"response", "RequestError"}
         /\ fp'[f].all_retryable) =>
            fp'[f].pc \in C17_Backoffs

\* the retry treatment: counter, attempt index, re-selection
C17_RetryStep ==
    \A f \in Fetchers :
        (fp[f].pc \in C17_Backoffs /\ fp'[f].pc \notin C17_Backoffs) =>
            /\ \A p \in DOMAIN pool.fail_counts :
                  p = fp[f].proxy_used =>
                      pool'.fail_counts[p] = pool.fail_counts[p] + 1
            /\ fp'[f].pc = "get" =>
                  /\ fp'[f].attempt = fp[f].attempt + 1
                  /\ fp'[f].nexts = fp[f].nexts + 1
                  /\ fp'[f].gets = fp[f].gets + 1
            /\ fp'[f].pc # "get" =>
                  /\ fp[f].attempt = cfg.max_retries
                  /\ fp'[f].result.status = 599

C17_RetryTreatment == [][C17_OutcomeStep /\ C17_RetryStep]_vars

(***************************************************************************)
(* C18: the sentinel statuses 451, 520 and 599 are told apart from every   *)
(* status passed through from a response: a call that returned a sentinel  *)
(* status did not return from a response, and the sentinel's condition     *)
(* occurred (blocked by robots.txt, unexpected error, retries exhausted).  *)
(***************************************************************************)
C18_Sentinels == {451, 520, 599}

C18_SentinelsUnambiguous ==
    \A f \in Fetchers :
        (/\ fp[f].pc = "done"
         /\ fp[f].result.kind = "return"
         /\ fp[f].result.status \in C18_Sentinels) =>
            /\ fp[f].r = NoResponse
            /\ fp[f].result.status = 451 => fp[f].robots = "denied"
            /\ fp[f].result.status = 520 => fp[f].gets >= 1
            /\ fp[f].result.status = 599 =>
                  fp[f].all_retryable /\ fp[f].gets = cfg.max_retries + 1

(***************************************************************************)
(* C19: DomainRateLimiter spaces the returns of wait(domain) on one domain *)
(* by at least delay_ms under every interleaving: when a wait returns, at  *)
(* least delay_ms have passed since the previous return for that domain,   *)
(* and the return stamps the domain; only the holder of the lock is        *)
(* between reading the timestamp and writing it.                           *)
(***************************************************************************)
C19_OneInside ==
    \A f \in Fetchers :
        fp[f].pc = "limiter_sleep" =>
            /\ lock.holder = f
            /\ \A g \in Fetchers : fp[g].pc = "limiter_sleep" => g = f

\* wait returns for f: the call goes on to its first GET
C19_WaitReturns(f) ==
    /\ fp[f].pc \in {"idle", "done", "lock_wait", "limiter_sleep"}
    /\ fp'[f].pc = "get"

C19_ReturnStep ==
    \A f \in Fetchers :
        C19_WaitReturns(f) =>
            /\ since[get_domain(fp'[f].url)] >= cfg.delay_ms
            /\ since'[get_domain(fp'[f].url)] = 0

C19_SpacingPerDomain ==
    /\ []C19_OneInside
    /\ [][C19_ReturnStep]_vars

\* two callers on the same domain: the wait of the second returned while the
\* GET of the first is still out, delay_ms after the first
C19_Witness ==
    \E f, g \in Fetchers :
        /\ f # g
        /\ cfg.delay_ms > 0
        /\ fp[f].pc = "get"
        /\ fp[g].pc = "get"
        /\ fp[f].url = fp[g].url
        /\ since[get_domain(fp[f].url)] = 0

(***************************************************************************)
(* C20: different domains proceed in parallel through DomainRateLimiter: a *)
(* wait for a domain whose own spacing is satisfied is never held up by a  *)
(* wait that sleeps out the spacing of another domain.                     *)
(***************************************************************************)
C20_DomainsIndependent ==
    \A f, g \in Fetchers :
        (/\ fp[g].pc = "limiter_sleep"
         /\ fp[f].pc = "lock_wait"
         /\ get_domain(fp[f].url) # get_domain(fp[g].url)) =>
            since[get_domain(fp[f].url)] < cfg.delay_ms

(***************************************************************************)
(* C30: frontier invariant: every entry of the queue and of the seen-set   *)
(* (and every URL handed to a worker) has its fragment stripped and the    *)
(* queue entries are pairwise distinct, so URLs that differ only in their  *)
(* fragment share one seen-set slot and are dispatched once.               *)
(***************************************************************************)
C30_Stripped(u) == [u EXCEPT !.fragment = ""]

C30_FrontierInvariant ==
    /\ \A u \in seen : u.fragment = ""
    /\ \A i \in DOMAIN queue : queue[i].fragment = ""
    /\ \A i, j \in DOMAIN queue : i # j => queue[i] # queue[j]
    /\ \A w \in DOMAIN tasks : tasks[w].url.fragment = ""
    /\ \A u, v \in seen : C30_Stripped(u) = C30_Stripped(v) => u = v
    /\ \A u \in DOMAIN handled :
          handled[u] + Cardinality({ i \in DOMAIN queue : queue[i] = u }) <= 1

\* http://a.e/x and http://a.e/x#f were both seeds, and the run ended with
\* their one normalized form dispatched once
C30_Witness ==
    /\ \E i, j \in DOMAIN seeds :
          /\ seeds[i].fragment = ""
          /\ seeds[j].fragment = "f"
          /\ C30_Stripped(seeds[j]) = seeds[i]
          /\ seeds[i] \in seen
          /\ handled[seeds[i]] = 1
    /\ runpc = "returned"

(***************************************************************************)
(* C21: ProxyPool.next() selects round-robin: self._idx is the position    *)
(* after the proxy returned last, and with every proxy eligible a call     *)
(* returns the proxy at self._idx, which after a call that returned p is   *)
(* the cyclic successor of p in the list.                                  *)
(***************************************************************************)
C21_Eligible(p) == pool.fail_counts[p] < fail_threshold

\* the 1-based position of proxy p in the list
C21_Pos(p) == CHOOSE i \in DOMAIN cfg.proxies : cfg.proxies[i] = p

C21_AfterLast ==
    (pcall.op = "next" /\ pcall.proxy # None) =>
        pool.idx = C21_Pos(pcall.proxy) % Len(cfg.proxies)

C21_NextStep ==
    (/\ pcall'.op = "next"
     /\ cfg.proxies # <<>>
     /\ \A p \in ProxiesOf(cfg.proxies) : C21_Eligible(p)) =>
        /\ pcall'.proxy = cfg.proxies[pool.idx + 1]
        /\ pool'.idx = (pool.idx + 1) % Len(cfg.proxies)
        /\ (pcall.op = "next" /\ pcall.proxy # None) =>
              pcall'.proxy =
                  cfg.proxies[(C21_Pos(pcall.proxy) % Len(cfg.proxies)) + 1]

C21_RoundRobin == []C21_AfterLast /\ [][C21_NextStep]_vars

\* the last proxy of a list of three was returned and the scan wrapped round
C21_Witness ==
    /\ Len(cfg.proxies) = 3
    /\ pcall.op = "next"
    /\ pcall.proxy = cfg.proxies[3]
    /\ pool.idx = 0
    /\ \A p \in ProxiesOf(cfg.proxies) : C21_Eligible(p)

(***************************************************************************)
(* C22: circuit breaking: next() returns only a proxy whose failure        *)
(* counter is below fail_threshold; a proxy with fail_threshold or more    *)
(* mark_failure calls since its last mark_success is not returned, and     *)
(* next() does return a proxy while an eligible one remains.               *)
(***************************************************************************)
C22_CircuitBreaking ==
    pcall.op = "next" =>
        /\ pcall.proxy # None =>
              /\ pool.fail_counts[pcall.proxy] < fail_threshold
              /\ streak[pcall.proxy] < fail_threshold
        /\ (\E p \in ProxiesOf(cfg.proxies) : streak[p] < fail_threshold) =>
              pcall.proxy # None

\* next() passed over a tripped proxy and returned another one
C22_Witness ==
    /\ pcall.op = "next"
    /\ pcall.proxy # None
    /\ pcall.examined >= 2
    /\ \E p \in ProxiesOf(cfg.proxies) : streak[p] >= fail_threshold

(***************************************************************************)
(* C23: ProxyPool.next() ends after looking at each proxy at most once:    *)
(* with an empty list it returns None at once, and when every counter is   *)
(* at or above the threshold it returns None after one full cycle, from    *)
(* every starting index and for every list length, 1 included.             *)
(***************************************************************************)
C23_NextTerminates ==
    pcall.op = "next" =>
        /\ pcall.examined <= Len(cfg.proxies)
        /\ cfg.proxies = <<>> => (pcall.proxy = None /\ pcall.examined = 0)
        /\ (\A p \in ProxiesOf(cfg.proxies) : ~C21_Eligible(p)) =>
              (pcall.proxy = None /\ pcall.examined = Len(cfg.proxies))

\* every proxy of a list of three is tripped, the scan started in the middle
C23_Witness ==
    /\ pcall.op = "next"
    /\ pcall.proxy = None
    /\ Len(cfg.proxies) = 3
    /\ pcall.examined = 3
    /\ pool.idx = 1

(***************************************************************************)
(* C24: mark_success(p) sets p's counter to 0 whatever it was, so the      *)
(* counter always is the number of failures since p's last success;        *)
(* mark_failure(p) adds one; neither changes another proxy's counter or    *)
(* the index.                                                              *)
(***************************************************************************)
C24_MarkStep ==
    \A p \in ProxiesOf(cfg.proxies) :
        /\ (pcall'.op = "mark_success" /\ pcall'.proxy = p) =>
              pool' = [pool EXCEPT !.fail_counts[p] = 0]
        /\ (pcall'.op = "mark_failure" /\ pcall'.proxy = p) =>
              pool' = [pool EXCEPT !.fail_counts[p] = @ + 1]

C24_CounterIsStreak ==
    \A p \in ProxiesOf(cfg.proxies) : pool.fail_counts[p] = streak[p]

C24_FullReset == []C24_CounterIsStreak /\ [][C24_MarkStep]_vars

\* a success on a proxy that was one failure short of the threshold
C24_Witness ==
    /\ pcall.op = "mark_success"
    /\ pcall.proxy # None
    /\ pcall.before = fail_threshold - 1
    /\ pool.fail_counts[pcall.proxy] = 0
    /\ Len(cfg.proxies) >= 2

(***************************************************************************)
(* C25: fail-open robots policy: when the first fetch of a host's          *)
(* robots.txt failed (rp.read() raised, or the server answered 5xx),       *)
(* allowed(url) is true for that query and for every later query on the    *)
(* host.                                                                   *)
(***************************************************************************)
C25_FailedReads == {"error", "http_5xx"}

C25_FailOpen ==
    (/\ rcall.url # NoURL
     /\ reads[urlparse(rcall.url).netloc].out \in C25_FailedReads) =>
        rcall.ok

(***************************************************************************)
(* C26: robots fetch-once: robots.txt of a netloc is fetched at most once, *)
(* by the first allowed(url) call for it, also when that fetch failed;     *)
(* every later call finds the entry cached.                                *)
(***************************************************************************)
C26_AtMostOnce ==
    \A d \in DOMAIN reads :
        /\ reads[d].n <= 1
        /\ reads[d].n = 1 <=> robots_cache[d] # Absent

C26_CallStep ==
    rcall'.url # NoURL =>
        LET d == urlparse(rcall'.url).netloc
        IN  /\ rcall'.read <=> reads[d].n = 0
            /\ ~rcall'.read => robots_cache' = robots_cache

C28_Base(attempt) == Min(cfg.initial_ms * (2 ^ (attempt - 1)), cfg.max_ms)

C28_DelayWithinJitter ==
    dcall.attempt >= 1 =>
        /\ ~dcall.raised
        /\ 8 * C28_Base(dcall.attempt) <= dcall.tenths
        /\ dcall.tenths <= 12 * C28_Base(dcall.attempt)

(***************************************************************************)
(* C29: compute_delay_ms is non-decreasing in attempt below saturation:    *)
(* for attempts a < b whose unjittered bases are at most max_ms, the delay *)
(* of a is at most the delay of b for every pair of clock readings.        *)
(***************************************************************************)
C29_Monotone ==
    (/\ dprev.attempt >= 1
     /\ dprev.attempt < dcall.attempt
     /\ cfg.initial_ms * (2 ^ (dcall.attempt - 1)) <= cfg.max_ms) =>
        /\ ~dprev.raised
        /\ ~dcall.raised
        /\ dprev.tenths <= dcall.tenths

(***************************************************************************)
(* C33: frontier accounting.  In every reachable state of a run each URL   *)
(* of the seen-set is in exactly one of the states queued (once in the     *)
(* queue), in-flight (popped, its handler running) or done; the number of  *)
(* put_nowait calls equals the size of the seen-set; the queue's count of  *)
(* unfinished items equals queued + in-flight; and the seen-set only grows.*)
(***************************************************************************)
C33_Queued(u) == Cardinality({ i \in DOMAIN queue : queue[i] = u })

C33_Running(u) == Cardinality({ w \in InFlight : tasks[w].url = u })

C33_Done(u) == IF outcome[u] # "none" THEN 1 ELSE 0

C33_Partition ==
    /\ seen \subseteq NormURLs
    /\ \A u \in NormURLs :
          C33_Queued(u) + C33_Running(u) + C33_Done(u)
              = IF u \in seen THEN 1 ELSE 0
    /\ pushes = Cardinality(seen)
    /\ unfinished = Len(queue) + Cardinality(InFlight)

C33_FrontierAccounting ==
    /\ []C33_Partition
    /\ [][seen \subseteq seen']_vars

\* one URL is queued while another is in flight and a third is done
C33_Witness ==
    \E q \in seen : \E i \in seen : \E d \in seen :
        /\ C33_Queued(q) = 1
        /\ C33_Running(i) = 1
        /\ C33_Done(d) = 1
        /\ runpc = "join"

(***************************************************************************)
(* C39: run called with concurrency = 0 while the queue is non-empty never *)
(* returns: no worker exists that could mark an item done.  run called     *)
(* with an empty queue returns at once, for any concurrency, and the       *)
(* handler is never invoked.                                               *)
(***************************************************************************)
C39_NoHandlerRan == \A u \in NormURLs : handled[u] = 0 /\ outcome[u] = "none"

C39_State ==
    /\ (concurrency = 0 /\ pushes > 0) =>
          /\ runpc # "returned"
          /\ queue # <<>>
          /\ C39_NoHandlerRan
    /\ pushes = 0 =>
          /\ runpc \in {"idle", "returned"}
          /\ C39_NoHandlerRan

C39_StartStep ==
    (runpc = "idle" /\ runpc' # "idle") =>
        /\ queue = <<>> => runpc' = "returned"
        /\ (queue # <<>> /\ concurrency = 0) => (runpc' = "join" /\ tasks' = <<>>)

C39_ZeroConcurrencyHangs ==
    /\ []C39_State
    /\ [][C39_StartStep]_vars

\* run was called without workers on a non-empty queue and waits in join()
C39_Witness ==
    /\ concurrency = 0
    /\ queue # <<>>
    /\ runpc = "join"
    /\ tasks = <<>>

(***************************************************************************)
(* C38: scope matching is a plain case-insensitive suffix test on the      *)
(* netloc (host with any port or userinfo) of the URL enqueue works on:    *)
(* the URL is accepted exactly when its lower-cased netloc ends with the   *)
(* lower-cased text of some allowed domain, with no label boundary, and    *)
(* every URL is accepted when the allow-list is empty.                     *)
(***************************************************************************)
C38_EndsCI(n, d) ==
    \E k \in 0..Len(n) :
        /\ k + Len(d) = Len(n)
        /\ \A i \in 1..Len(d) : LowerChar(n[k + i]) = LowerChar(d[i])

C38_InScope(u) ==
    \/ allowed_domains = <<>>
    \/ \E i \in DOMAIN allowed_domains : C38_EndsCI(u.netloc, allowed_domains[i])

C38_SuffixScope ==
    lastEnq.res # "none" =>
        /\ lastEnq.res \in {"pushed", "seen"} <=> C38_InScope(lastEnq.url)
        /\ lastEnq.res = "pushed" => lastEnq.url \in seen
        /\ \A u \in seen : C38_InScope(u)

\* http://na.e/x was accepted under the allow-list ["a.e"]
C38_Witness ==
    /\ allowed_domains = << <<"a", ".", "e">> >>
    /\ lastEnq.res = "pushed"
    /\ lastEnq.url.netloc = <<"n", "a", ".", "e">>

(***************************************************************************)
(* C40: the robots cache is keyed by netloc only.  The robots.txt URL is   *)
(* built from the scheme of the first URL queried for a netloc, and later  *)
(* queries for that netloc under another scheme (http vs https) reuse the  *)
(* entry: robots.txt is not fetched again and the entry does not change.   *)
(***************************************************************************)
C40_FirstQueryStep ==
    rcall'.read =>
        LET d == rcall'.url.netloc
        IN  /\ reads[d].n = 0
            /\ reads'[d].url.scheme = rcall'.url.scheme
            /\ reads'[d].url.netloc = d
            /\ reads'[d].url.path = "/robots.txt"

C40_LaterQueryStep ==
    \A d \in RobotsNetlocs :
        reads[d].n = 1 =>
            /\ reads'[d] = reads[d]
            /\ robots_cache'[d] = robots_cache[d]
            /\ (rcall' # rcall /\ rcall'.url.netloc = d) => ~rcall'.read

C40_KeyedByNetloc == [][C40_FirstQueryStep /\ C40_LaterQueryStep]_vars

\* https://a.e/x was answered from the entry read from http://a.e/robots.txt
C40_Witness ==
    /\ rcall.url.scheme = "https"
    /\ ~rcall.read
    /\ reads[rcall.url.netloc].n = 1
    /\ reads[rcall.url.netloc].url.scheme = "http"

(***************************************************************************)
(* C36: ProxyPool index invariant: for a non-empty pool the round-robin    *)
(* index is in [0, len(proxies)) after any sequence of next, mark_failure  *)
(* and mark_success calls, every failure counter is >= 0, and a next()     *)
(* call that returns None leaves the index equal to its value before the   *)
(* call.                                                                   *)
(***************************************************************************)
C36_IndexInRange ==
    /\ cfg.proxies # <<>> => pool.idx \in 0..(Len(cfg.proxies) - 1)
    /\ \A p \in DOMAIN pool.fail_counts : pool.fail_counts[p] >= 0

C36_NoneStep ==
    (pcall'.op = "next" /\ pcall'.proxy = None) => pool'.idx = pool.idx

C36_IndexInvariant == []C36_IndexInRange /\ [][C36_NoneStep]_vars

\* next() went round a pool of three tripped proxies from index 2 and
\* returned None
C36_Witness ==
    /\ Len(cfg.proxies) = 3
    /\ pcall.op = "next"
    /\ pcall.proxy = None
    /\ pcall.examined = 3
    /\ pool.idx = 2

(***************************************************************************)
(* C32: every temporary proxied client that fetch creates for an attempt   *)
(* is closed before the next attempt starts or fetch returns, on every     *)
(* path: while an attempt is under way only its own temporary client is    *)
(* open, and none is open once fetch has returned.                         *)
(***************************************************************************)
C32_TempClientsClosed ==
    \A f \in Fetchers :
        /\ fp[f].pc = "get" =>
              fp[f].temp_open = IF fp[f].proxy_used # None THEN 1 ELSE 0
        /\ fp[f].pc = "done" => fp[f].temp_open = 0

(***************************************************************************)
(* C31: on a retryable status or a network-level error the failure of the  *)
(* proxy used is recorded before the backoff sleep begins: when the fetch  *)
(* suspends in its backoff sleep the counter of that proxy is already      *)
(* incremented, so that a concurrent fetch calling next() during the sleep *)
(* sees it.                                                                *)
(***************************************************************************)
C31_SleepBeginsStep ==
    \A f \in Fetchers :
        (/\ fp[f].pc = "get"
         /\ fp'[f].pc \in {"backoff_status", "backoff_error"}
         /\ fp[f].proxy_used # None) =>
            pool'.fail_counts[fp[f].proxy_used]
                = pool.fail_counts[fp[f].proxy_used] + 1

C31_FailureBeforeSleep == [][C31_SleepBeginsStep]_vars

(***************************************************************************)
(* C35: the unexpected-error path of fetch leaves the failure counters of  *)
(* the proxy pool unchanged: the attempt that ends in `except Exception`   *)
(* calls neither mark_failure nor mark_success for the proxy it used, so   *)
(* the counters after the call are those the attempt found.                *)
(***************************************************************************)
C35_UnexpectedReturn(f) ==
    /\ fp[f].pc = "get"
    /\ fp'[f].pc = "done"
    /\ fp'[f].result = [kind |-> "return", status |-> 520,
                        text |-> "Unexpected error"]
    /\ fp'[f].r = NoResponse

C35_CountersStep ==
    \A f \in Fetchers :
        C35_UnexpectedReturn(f) =>
            /\ pool'.fail_counts = pool.fail_counts
            /\ fp[f].proxy_used # None =>
                  pool'.fail_counts[fp[f].proxy_used]
                      = pool.fail_counts[fp[f].proxy_used]

C35_UnexpectedKeepsCounters == [][C35_CountersStep]_vars

\* the second attempt of a call ended with an unexpected exception: the one
\* failure recorded for the first attempt is still the proxy's counter
C35_Witness ==
    \E f \in Fetchers :
        /\ cfg.callers = 1
        /\ cfg.proxies = <<"p1">>
        /\ fp[f].pc = "done"
        /\ fp[f].last = "Exception"
        /\ fp[f].result.status = 520
        /\ fp[f].gets = 2
        /\ fp[f].nexts = 2
        /\ pool.fail_counts["p1"] = 1

(***************************************************************************)
(* C34: a tripped proxy never recovers on its own.  Once the counter of p  *)
(* has reached fail_threshold and no fetch in flight holds p, next() never *)
(* returns p for the rest of the run: there is no time-based reset.  Once  *)
(* every proxy is in that state, every later attempt of every fetch runs   *)
(* with no proxy (a direct connection) and changes no counter.             *)
(***************************************************************************)
C34_Held(p) == \E f \in Fetchers : fp[f].proxy_used = p

C34_Tripped(p) == pool.fail_counts[p] >= fail_threshold /\ ~C34_Held(p)

C34_AllTripped ==
    /\ cfg.proxies # <<>>
    /\ \A p \in DOMAIN pool.fail_counts : C34_Tripped(p)

C34_StaysTripped ==
    \A p \in DOMAIN pool.fail_counts :
        C34_Tripped(p) =>
            /\ pool'.fail_counts[p] = pool.fail_counts[p]
            /\ \A f \in Fetchers : fp'[f].proxy_used # p

C34_DirectOnly ==
    C34_AllTripped =>
        /\ pool' = pool
        /\ \A f \in Fetchers :
              /\ fp'[f].proxy_used = None
              /\ fp'[f].temp_open <= fp[f].temp_open

C37_InWait(f) == fp[f].pc \in {"lock_wait", "limiter_sleep"}

C37_LockState ==
    /\ lock.holder \in {0} \cup { f \in Fetchers : C37_InWait(f) }
    /\ \A i \in DOMAIN lock.waiters :
          /\ fp[lock.waiters[i]].pc = "lock_wait"
          /\ lock.waiters[i] # lock.holder
          /\ \A j \in DOMAIN lock.waiters : lock.waiters[j] = lock.waiters[i] => j = i
    /\ \A f \in Fetchers :
          fp[f].pc = "lock_wait" =>
              \/ lock.holder = f
              \/ \E i \in DOMAIN lock.waiters : lock.waiters[i] = f
    /\ \A f \in Fetchers : fp[f].pc = "limiter_sleep" => lock.holder = f
    /\ lock.holder = 0 => lock.waiters = <<>>

C37_WaitDeadlockFree ==
    /\ []C37_LockState
    /\ \A f \in Fetchers : C37_InWait(f) ~> ~C37_InWait(f)

\* a call that did not have to sleep went through wait and left the lock free
\* while another call was past its own wait
C37_Witness ==
    \E f \in Fetchers : \E g \in Fetchers :
        /\ f # g
        /\ fp[f].pc = "get"
        /\ fp[f].waits = 1
        /\ fp[g].pc = "get"
        /\ fp[g].waits = 1
        /\ fp[f].url.netloc # fp[g].url.netloc
        /\ lock = [holder |-> 0, waiters |-> <<>>]

====
